---- MODULE Spec2Model ----
(***************************************************************************)
(* Model of the application-api operator: the reconciliation controller    *)
(* of src/src/main.rs, the finalizer and deployment calls of               *)
(* src/src/controllers/assignment.rs and the GitOps workflow of            *)
(* src/src/workflows/gitops.rs, run against a resource store and a         *)
(* destination Git remote.                                                 *)
(*                                                                         *)
(* One reconciliation of a resource is a chain of steps, one per call the  *)
(* handler awaits (store patch, store reads + clone + local work, push).   *)
(* Between two steps the store, the remote, the other resources' tasks and *)
(* a controller crash may act.                                             *)
(*                                                                         *)
(* Specifications:                                                         *)
(*   Spec, FairSpec   the controller with the store's users, another       *)
(*                    writer of the repository and crashes;                *)
(*   WorkflowSpec     two assignments of one cluster, the workflow one     *)
(*                    call at a time, the branch as a chain of commits;    *)
(*   ValuesSpec       the template values of create_deployment over all    *)
(*                    combinations of its inputs;                          *)
(*   PushSpec         two assignments pushing to the same branch, with     *)
(*                    fairness;                                            *)
(*   InvocationSpec   create_deployment and delete_deployment statement by *)
(*                    statement, with their temporary directories, their   *)
(*                    errors and their panics;                             *)
(*   MatchSpec        AssignmentSpec::matches over clusters and label      *)
(*                    rules;                                               *)
(*   RenderSpec       the two renderers over template trees and values;    *)
(*   NamesakeSpec     two assignments with one name in two namespaces.     *)
(***************************************************************************)
EXTENDS Naturals, Sequences, FiniteSets, TLC

VARIABLES
    store,      \* resource store: per resource, exists / deletion_timestamp / finalizers
    remote,     \* tree at the head of the destination repository's branch
    pc,         \* per resource: the call its reconciliation task is about to make
    local,      \* per resource: the task's clone of the destination repository
    queued,     \* per resource: a watch event is waiting in the controller's queue
    requeue,    \* per resource: requeue_after of the last ReconcilerAction
    outcome,    \* per resource: what the last finished reconciliation returned
    log         \* per resource: the calls the current (or last) reconciliation made

vars == <<store, remote, pc, local, queued, requeue, outcome, log>>

----------------------------------------------------------------------------
(* Option values: None is the empty sequence, Some(x) a sequence of one.   *)
None == <<>>
Some(x) == <<x>>

(* Seconds of the two requeue delays.                                      *)
SteadyStateSecs == 60
ErrorBackoffSecs == 5

(* The watched assignment resources and their immutable identity and spec. *)
Resources == {"r1", "r3"}

(* Two assignments of the same cluster, both namespaced: the resources of  *)
(* the specifications that follow two tasks through the destination        *)
(* repository.                                                             *)
Assignments == {"r1", "r2"}

name(r) ==
    CASE r = "r1" -> "app1"
      [] r = "r2" -> "app2"
      [] r = "r3" -> "app3"
      [] r = "r4" -> "app1"

namespace(r) ==
    CASE r = "r1" -> Some("ns1")
      [] r = "r2" -> Some("ns1")
      [] r = "r3" -> None
      [] r = "r4" -> Some("ns2")

cluster(r) == "c1"

(* Finalizer strings: the controller's own, and one of another owner.      *)
OurFinalizer == "application-assignment.microsoft.com"
OtherFinalizer == "other.example.com/cleanup"
FinalizerNames == {OurFinalizer, OtherFinalizer}

(* A resource that is not in the store.                                    *)
Absent == [exists |-> FALSE, deletion_timestamp |-> FALSE, finalizers |-> {}]

----------------------------------------------------------------------------
(* Paths are sequences of names; a tree is a set of tracked files.         *)

IsPrefix(p, q) == Len(p) <= Len(q) /\ SubSeq(q, 1, Len(p)) = p

ParentDirs(p) == {SubSeq(p, 1, n) : n \in 1..(Len(p) - 1)}

DirsOf(files) == UNION {ParentDirs(f.path) : f \in files}

TemplateFiles == {"deployment.yaml", "service.yaml"}

RenderedFile(path, r) ==
    [path |-> path, kind |-> "rendered", owner |-> r, resources |-> <<>>]

KustomizationFile(path, resources) ==
    [path |-> path, kind |-> "kustomization", owner |-> "-", resources |-> resources]

PlainFile(path) ==
    [path |-> path, kind |-> "plain", owner |-> "-", resources |-> <<>>]

(* The entries of a directory in the order read_dir yields them: some      *)
(* order, each entry once.                                                 *)
read_dir(entries) ==
    CHOOSE s \in [1..Cardinality(entries) -> entries] :
        \A e \in entries : \E i \in 1..Cardinality(entries) : s[i] = e

(* The trees the destination repository may hold before the operator acts: *)
(* one without any directory for the cluster, one where the sync agent's   *)
(* own flux-system directory already exists under the cluster.             *)
InitialTrees ==
    { {PlainFile(<<"README.md">>)},
      {PlainFile(<<"README.md">>),
       PlainFile(<<"c1", "flux-system", "gotk-sync.yaml">>)} }

----------------------------------------------------------------------------
(* The GitOps workflow's steps on one clone.  A clone is a working tree    *)
(* (files and directories on disk) and an index (the files staged for the  *)
(* next commit); right after cloning, both hold the remote's tree.         *)

clone_cluster_gitops_repo(tree) ==
    [files |-> tree, dirs |-> DirsOf(tree), index |-> tree]

(* index.remove_dir on the cluster's directory instead of the              *)
(* assignment's.                                                           *)
remove_dir_of_cluster(wt, path) ==
    [wt EXCEPT !.index = {f \in wt.index : ~IsPrefix(SubSeq(path, 1, 1), f.path)}]

(* index.remove_dir leaving the index as it was.                           *)
remove_dir_skipped(wt, path) == wt

(* index.remove_dir(path): drops the tracked entries below path from the   *)
(* index; the working tree is not touched.                                 *)
remove_dir(wt, path) ==
    [wt EXCEPT !.index = {f \in wt.index : ~IsPrefix(path, f.path)}]

(* render: creates the output directory, writes one rendered file per      *)
(* template file (overwriting), and returns the paths written.             *)
render(wt, output_relative_path, r) ==
    LET paths == {output_relative_path \o <<t>> : t \in TemplateFiles}
        written == {RenderedFile(p, r) : p \in paths}
    IN  [wt |-> [wt EXCEPT
                   !.dirs = wt.dirs \cup ParentDirs(output_relative_path)
                                    \cup {output_relative_path},
                   !.files = {f \in wt.files : f.path \notin paths} \cup written],
         paths |-> paths]

(* link adding its list to the resources kustomization.yaml already has.   *)
link_appending(wt, cluster_path) ==
    IF cluster_path \notin wt.dirs
    THEN [ok |-> FALSE, wt |-> wt]
    ELSE LET subdirs == {d \in wt.dirs : /\ Len(d) = Len(cluster_path) + 1
                                         /\ IsPrefix(cluster_path, d)
                                         /\ d[Len(d)] # "flux-system"}
             kustomization_path == cluster_path \o <<"kustomization.yaml">>
             before == {f \in wt.files : f.path = kustomization_path}
             applications ==
                 (IF before = {} THEN <<"../common">>
                  ELSE (CHOOSE f \in before : TRUE).resources)
                 \o read_dir({d[Len(d)] : d \in subdirs})
         IN  [ok |-> TRUE,
              wt |-> [wt EXCEPT !.files =
                         {f \in wt.files : f.path # kustomization_path}
                         \cup {KustomizationFile(kustomization_path, applications)}]]

(* link without its test on the name flux-system.                          *)
link_listing_flux_system(wt, cluster_path) ==
    IF cluster_path \notin wt.dirs
    THEN [ok |-> FALSE, wt |-> wt]
    ELSE LET subdirs == {d \in wt.dirs : /\ Len(d) = Len(cluster_path) + 1
                                         /\ IsPrefix(cluster_path, d)}
             applications == <<"../common">> \o read_dir({d[Len(d)] : d \in subdirs})
             kustomization_path == cluster_path \o <<"kustomization.yaml">>
         IN  [ok |-> TRUE,
              wt |-> [wt EXCEPT !.files =
                         {f \in wt.files : f.path # kustomization_path}
                         \cup {KustomizationFile(kustomization_path, applications)}]]

(* link: read_dir(cluster_path) fails when the directory does not exist;   *)
(* otherwise kustomization.yaml is overwritten with the list that starts   *)
(* with "../common" and goes on with every entry of the directory that is  *)
(* a directory and is not named flux-system.                               *)
link(wt, cluster_path) ==
    IF cluster_path \notin wt.dirs
    THEN [ok |-> FALSE, wt |-> wt]
    ELSE LET subdirs == {d \in wt.dirs : /\ Len(d) = Len(cluster_path) + 1
                                         /\ IsPrefix(cluster_path, d)
                                         /\ d[Len(d)] # "flux-system"}
             applications == <<"../common">> \o read_dir({d[Len(d)] : d \in subdirs})
             kustomization_path == cluster_path \o <<"kustomization.yaml">>
         IN  [ok |-> TRUE,
              wt |-> [wt EXCEPT !.files =
                         {f \in wt.files : f.path # kustomization_path}
                         \cup {KustomizationFile(kustomization_path, applications)}]]

(* commit_files writing the tree of the index without adding the paths.    *)
commit_files_index_only(wt, paths) == wt.index

(* commit_files: index.add_path for every path (the file as it is on disk  *)
(* replaces the index entry), then write_tree: the committed tree is the   *)
(* index.                                                                  *)
commit_files(wt, paths) ==
    {f \in wt.index : f.path \notin paths} \cup {f \in wt.files : f.path \in paths}

(* output_relative_path of create_deployment: the cluster's directory      *)
(* joined with the assignment's name.                                      *)
create_output_relative_path(r) == <<cluster(r)>> \o <<name(r)>>

(* output_relative_path of delete_deployment with the environment joined   *)
(* in between.                                                             *)
delete_output_relative_path_by_environment(r) == <<cluster(r)>> \o <<"dev">> \o <<name(r)>>

(* output_relative_path of delete_deployment.                              *)
delete_output_relative_path(r) == <<cluster(r)>> \o <<name(r)>>

(* GitopsWorkflow::create_deployment up to and including the commit.       *)
workflow_create_deployment(tree, r) ==
    LET cluster_relative_path == <<cluster(r)>>
        output_relative_path == create_output_relative_path(r)
        cloned == clone_cluster_gitops_repo(tree)
        unstaged == remove_dir(cloned, output_relative_path)
        rendered == render(unstaged, output_relative_path, r)
        linked == link(rendered.wt, cluster_relative_path)
        paths == rendered.paths \cup {cluster_relative_path \o <<"kustomization.yaml">>}
    IN  IF ~linked.ok
        THEN [ok |-> FALSE, step |-> "link", error |-> "IoError", tree |-> tree]
        ELSE [ok |-> TRUE, step |-> "-", error |-> "-",
              tree |-> commit_files(linked.wt, paths)]

(* GitopsWorkflow::delete_deployment up to and including the commit.       *)
workflow_delete_deployment(tree, r) ==
    LET cluster_relative_path == <<cluster(r)>>
        output_relative_path == delete_output_relative_path(r)
        cloned == clone_cluster_gitops_repo(tree)
        unstaged == remove_dir(cloned, output_relative_path)
        linked == link(unstaged, cluster_relative_path)
        paths == {cluster_relative_path \o <<"kustomization.yaml">>}
    IN  IF ~linked.ok
        THEN [ok |-> FALSE, step |-> "link", error |-> "IoError", tree |-> tree]
        ELSE [ok |-> TRUE, step |-> "-", error |-> "-",
              tree |-> commit_files(linked.wt, paths)]

(* The rendered artifacts of resource r in a tree.                         *)
Artifacts(tree, r) == {f \in tree : f.kind = "rendered" /\ f.owner = r}

----------------------------------------------------------------------------
(* The controller.                                                         *)

NoClone == [has |-> FALSE, fresh |-> FALSE, tree |-> {}]

NoOutcome  == [result |-> "None", action |-> "-", error |-> "-"]
Running(a) == [result |-> "Running", action |-> a, error |-> "-"]
Ok(a)      == [result |-> "Ok", action |-> a, error |-> "-"]
Err(a, e)  == [result |-> "Err", action |-> a, error |-> e]

Call(op, res) == <<op, res>>

(* determine_action with its two tests in the other order.                 *)
determine_action_finalizer_first(meta) ==
    IF meta.finalizers # {} THEN "Create"
    ELSE IF meta.deletion_timestamp THEN "Delete"
    ELSE "NoOp"

(* determine_action: deletion_timestamp.is_some() -> Delete, else          *)
(* finalizers.is_some() -> Create, else NoOp.  The store omits an empty    *)
(* finalizer list, so is_some() is "the set is not empty".                 *)
determine_action(meta) ==
    IF meta.deletion_timestamp THEN "Delete"
    ELSE IF meta.finalizers # {} THEN "Create"
    ELSE "NoOp"

(* on_error asking for no requeue.                                         *)
on_error_no_requeue(error) == [requeue_after |-> None]

(* on_error: every error requeues after five seconds.                      *)
on_error(error) == [requeue_after |-> Some(ErrorBackoffSecs)]

(* The reconciliation of r returns Err(e): the task ends, its temporary    *)
(* directories are dropped and on_error decides the requeue.               *)
ReturnErr(r, a, e) ==
    /\ pc' = [pc EXCEPT ![r] = "idle"]
    /\ local' = [local EXCEPT ![r] = NoClone]
    /\ outcome' = [outcome EXCEPT ![r] = Err(a, e)]
    /\ requeue' = [requeue EXCEPT ![r] = on_error(e).requeue_after]

(* The reconciliation of r returns Ok(ReconcilerAction{requeue_after}).    *)
ReturnOk(r, a, requeue_after) ==
    /\ pc' = [pc EXCEPT ![r] = "idle"]
    /\ local' = [local EXCEPT ![r] = NoClone]
    /\ outcome' = [outcome EXCEPT ![r] = Ok(a)]
    /\ requeue' = [requeue EXCEPT ![r] = requeue_after]

(* The reconciliation of r goes on to its next awaited call.               *)
Goto(r, a, next) ==
    /\ pc' = [pc EXCEPT ![r] = next]
    /\ outcome' = [outcome EXCEPT ![r] = Running(a)]
    /\ requeue' = [requeue EXCEPT ![r] = None]

(* reconcile without the namespace check.                                  *)
reconcile_without_namespace_check(r) ==
    /\ pc[r] = "idle"
    /\ store[r].exists
    /\ queued[r]
    /\ queued' = [queued EXCEPT ![r] = FALSE]
    /\ log' = [log EXCEPT ![r] = <<>>]
    /\ UNCHANGED <<store, remote>>
    /\ CASE determine_action(store[r]) = "Create" ->
                Goto(r, "Create", "add_finalizer_record") /\ UNCHANGED local
           [] determine_action(store[r]) = "Delete" ->
                Goto(r, "Delete", "delete_deployment") /\ UNCHANGED local
           [] determine_action(store[r]) = "NoOp" ->
                ReturnOk(r, "NoOp", Some(SteadyStateSecs))

(* reconcile, from its entry to its first awaited call: the namespace      *)
(* check, then determine_action on the resource as the queue delivered it. *)
reconcile(r) ==
    /\ pc[r] = "idle"
    /\ store[r].exists
    /\ queued[r]
    /\ queued' = [queued EXCEPT ![r] = FALSE]
    /\ log' = [log EXCEPT ![r] = <<>>]
    /\ UNCHANGED <<store, remote>>
    /\ IF namespace(r) = None
       THEN ReturnErr(r, "-", "UserInputError")
       ELSE CASE determine_action(store[r]) = "Create" ->
                   Goto(r, "Create", "add_finalizer_record") /\ UNCHANGED local
              [] determine_action(store[r]) = "Delete" ->
                   Goto(r, "Delete", "delete_deployment") /\ UNCHANGED local
              [] determine_action(store[r]) = "NoOp" ->
                   ReturnOk(r, "NoOp", Some(SteadyStateSecs))

(* A JSON merge patch of metadata.finalizers replaces the whole list (or   *)
(* removes it, for null).  A patch that changes the resource is seen by    *)
(* the watch and queues the resource again.                                *)
PatchFinalizers(r, finalizers) ==
    /\ store[r].exists
    /\ store' = [store EXCEPT ![r].finalizers = finalizers]
    /\ queued' = [queued EXCEPT ![r] = queued[r] \/ store[r].finalizers # finalizers]

Logged(r, calls) == log' = [log EXCEPT ![r] = @ \o calls]

(* Create, first call: add_finalizer_record(...).await? with the patch     *)
(* {"metadata": {"finalizers": ["application-assignment.microsoft.com"]}}. *)
add_finalizer_record_ok(r) ==
    /\ pc[r] = "add_finalizer_record"
    /\ PatchFinalizers(r, {OurFinalizer})
    /\ Logged(r, <<Call("add_finalizer_record", "ok")>>)
    /\ Goto(r, "Create", "create_deployment")
    /\ UNCHANGED <<remote, local>>

(* add_finalizer_record's error dropped instead of returned with `?`.      *)
add_finalizer_record_err_ignored(r) ==
    /\ pc[r] = "add_finalizer_record"
    /\ Logged(r, <<Call("add_finalizer_record", "err")>>)
    /\ Goto(r, "Create", "create_deployment")
    /\ UNCHANGED <<store, queued, remote, local>>

add_finalizer_record_err(r) ==
    /\ pc[r] = "add_finalizer_record"
    /\ Logged(r, <<Call("add_finalizer_record", "err")>>)
    /\ ReturnErr(r, "Create", "KubeError")
    /\ UNCHANGED <<store, queued, remote>>

add_finalizer_record(r) == add_finalizer_record_ok(r) \/ add_finalizer_record_err(r)

(* A deployment call (create or delete) up to its commit: the store reads  *)
(* of the controller, then the workflow's clone and local steps, whose     *)
(* result `work` is computed from the tree cloned.                         *)
DeploymentCommitted(r, a, op, work, next) ==
    /\ pc[r] = op
    /\ store[r].exists
    /\ work.ok
    /\ Logged(r, <<Call(op, "start"), Call("clone", "ok"), Call("commit", "ok")>>)
    /\ local' = [local EXCEPT ![r] = [has |-> TRUE, fresh |-> TRUE, tree |-> work.tree]]
    /\ Goto(r, a, next)
    /\ UNCHANGED <<store, remote, queued>>

DeploymentFailed(r, a, op, work) ==
    /\ pc[r] = op
    /\ UNCHANGED <<store, remote, queued>>
    /\ \/ \* Api::get fails (transport error, or the resource is gone)
          /\ Logged(r, <<Call(op, "start"), Call(op, "err")>>)
          /\ ReturnErr(r, a, "KubeError")
       \/ \* the clone fails
          /\ store[r].exists
          /\ Logged(r, <<Call(op, "start"), Call("clone", "err"), Call(op, "err")>>)
          /\ ReturnErr(r, a, "GitError")
       \/ \* a step after the clone fails on a transient error
          /\ store[r].exists
          /\ Logged(r, <<Call(op, "start"), Call("clone", "ok"), Call(op, "err")>>)
          /\ \E e \in {"GitError", "IoError"} : ReturnErr(r, a, e)
       \/ \* a step after the clone fails on the tree that was cloned
          /\ store[r].exists
          /\ ~work.ok
          /\ Logged(r, <<Call(op, "start"), Call("clone", "ok"),
                         Call(work.step, "err"), Call(op, "err")>>)
          /\ ReturnErr(r, a, work.error)

(* push: the remote takes the commit only when its parent, the head the    *)
(* clone was made from, is still the remote's head (fast-forward).  A      *)
(* successful push makes every other clone stale.                          *)
PushAccepted(r) ==
    /\ local[r].has /\ local[r].fresh
    /\ remote' = local[r].tree

Stale(r) == [q \in DOMAIN local |-> IF q # r /\ local[q].has
                                 THEN [local[q] EXCEPT !.fresh = FALSE]
                                 ELSE local[q]]

(* A failed push taken for a success of the reconciliation.                *)
PushFailed_not_returned(r, a, op) ==
    /\ Logged(r, <<Call("push", "err"), Call(op, "ok")>>)
    /\ ReturnOk(r, a, Some(SteadyStateSecs))
    /\ UNCHANGED <<store, remote, queued>>

PushFailed(r, a, op) ==
    /\ Logged(r, <<Call("push", "err"), Call(op, "err")>>)
    /\ ReturnErr(r, a, "GitError")
    /\ UNCHANGED <<store, remote, queued>>

(* Create, second call: create_deployment(...).await?, then                *)
(* Ok(ReconcilerAction { requeue_after: Some(60s) }).                      *)
create_deployment_commit(r) ==
    DeploymentCommitted(r, "Create", "create_deployment",
                        workflow_create_deployment(remote, r), "create_push")

create_deployment_err(r) ==
    DeploymentFailed(r, "Create", "create_deployment",
                     workflow_create_deployment(remote, r))

create_deployment_push_ok(r) ==
    /\ pc[r] = "create_push"
    /\ PushAccepted(r)
    /\ Logged(r, <<Call("push", "ok"), Call("create_deployment", "ok")>>)
    /\ pc' = [pc EXCEPT ![r] = "idle"]
    /\ local' = [Stale(r) EXCEPT ![r] = NoClone]
    /\ outcome' = [outcome EXCEPT ![r] = Ok("Create")]
    /\ requeue' = [requeue EXCEPT ![r] = Some(SteadyStateSecs)]
    /\ UNCHANGED <<store, queued>>

create_deployment_push_err(r) ==
    /\ pc[r] = "create_push"
    /\ PushFailed(r, "Create", "create_deployment")

create_deployment(r) ==
    \/ create_deployment_commit(r)
    \/ create_deployment_err(r)
    \/ create_deployment_push_ok(r)
    \/ create_deployment_push_err(r)

(* Delete, first call: delete_deployment(...).await?                       *)
delete_deployment_commit(r) ==
    DeploymentCommitted(r, "Delete", "delete_deployment",
                        workflow_delete_deployment(remote, r), "delete_push")

(* delete_deployment's error dropped instead of returned with `?`.         *)
delete_deployment_err_ignored(r) ==
    /\ pc[r] = "delete_deployment"
    /\ Logged(r, <<Call("delete_deployment", "start"), Call("delete_deployment", "err")>>)
    /\ Goto(r, "Delete", "delete_finalizer_record")
    /\ UNCHANGED <<store, remote, queued, local>>

delete_deployment_err(r) ==
    DeploymentFailed(r, "Delete", "delete_deployment",
                     workflow_delete_deployment(remote, r))

delete_deployment_push_ok(r) ==
    /\ pc[r] = "delete_push"
    /\ PushAccepted(r)
    /\ Logged(r, <<Call("push", "ok"), Call("delete_deployment", "ok")>>)
    /\ local' = [Stale(r) EXCEPT ![r] = NoClone]
    /\ Goto(r, "Delete", "delete_finalizer_record")
    /\ UNCHANGED <<store, queued>>

(* A failed push of the Delete taken for a success.                        *)
delete_deployment_push_err_swallowed(r) ==
    /\ pc[r] = "delete_push"
    /\ Logged(r, <<Call("push", "err"), Call("delete_deployment", "ok")>>)
    /\ local' = [local EXCEPT ![r] = NoClone]
    /\ Goto(r, "Delete", "delete_finalizer_record")
    /\ UNCHANGED <<store, remote, queued>>

delete_deployment_push_err(r) ==
    /\ pc[r] = "delete_push"
    /\ PushFailed(r, "Delete", "delete_deployment")

delete_deployment(r) ==
    \/ delete_deployment_commit(r)
    \/ delete_deployment_err(r)
    \/ delete_deployment_push_ok(r)
    \/ delete_deployment_push_err(r)

(* Delete, second call: delete_finalizer_record(...).await? with the patch *)
(* {"metadata": {"finalizers": null}}, then                                *)
(* Ok(ReconcilerAction { requeue_after: None }).                           *)
(* A successful Delete asking for the steady-state requeue.                *)
delete_finalizer_record_ok_requeued(r) ==
    /\ pc[r] = "delete_finalizer_record"
    /\ PatchFinalizers(r, {})
    /\ Logged(r, <<Call("delete_finalizer_record", "ok")>>)
    /\ ReturnOk(r, "Delete", Some(SteadyStateSecs))
    /\ UNCHANGED remote

delete_finalizer_record_ok(r) ==
    /\ pc[r] = "delete_finalizer_record"
    /\ PatchFinalizers(r, {})
    /\ Logged(r, <<Call("delete_finalizer_record", "ok")>>)
    /\ ReturnOk(r, "Delete", None)
    /\ UNCHANGED remote

delete_finalizer_record_err(r) ==
    /\ pc[r] = "delete_finalizer_record"
    /\ Logged(r, <<Call("delete_finalizer_record", "err")>>)
    /\ ReturnErr(r, "Delete", "KubeError")
    /\ UNCHANGED <<store, queued, remote>>

delete_finalizer_record(r) ==
    delete_finalizer_record_ok(r) \/ delete_finalizer_record_err(r)

----------------------------------------------------------------------------
(* The environment: the resource store's users and the store itself, and   *)
(* the controller process being killed and started again.                  *)

(* A user creates the resource, with whatever finalizers the manifest has. *)
StoreCreate(r) ==
    /\ ~store[r].exists
    /\ \E fin \in SUBSET FinalizerNames :
          store' = [store EXCEPT ![r] =
                      [exists |-> TRUE, deletion_timestamp |-> FALSE, finalizers |-> fin]]
    /\ queued' = [queued EXCEPT ![r] = TRUE]
    /\ UNCHANGED <<remote, pc, local, requeue, outcome, log>>

(* A user asks for the deletion: the store sets the deletion timestamp.    *)
StoreDelete(r) ==
    /\ store[r].exists
    /\ ~store[r].deletion_timestamp
    /\ store' = [store EXCEPT ![r].deletion_timestamp = TRUE]
    /\ queued' = [queued EXCEPT ![r] = TRUE]
    /\ UNCHANGED <<remote, pc, local, requeue, outcome, log>>

(* The store erases a resource that is marked for deletion and has no      *)
(* finalizer left; the controller's queue and timer for it are dropped.    *)
StoreErase(r) ==
    /\ store[r].exists
    /\ store[r].deletion_timestamp
    /\ store[r].finalizers = {}
    /\ store' = [store EXCEPT ![r] = Absent]
    /\ queued' = [queued EXCEPT ![r] = FALSE]
    /\ requeue' = [requeue EXCEPT ![r] = None]
    /\ outcome' = [outcome EXCEPT ![r] = IF pc[r] = "idle" THEN NoOutcome ELSE @]
    /\ log' = [log EXCEPT ![r] = IF pc[r] = "idle" THEN <<>> ELSE @]
    /\ UNCHANGED <<remote, pc, local>>

(* Another writer of the destination repository pushes a commit: the sync  *)
(* agent's bootstrap adds its flux-system directory under the cluster, or  *)
(* removes it.  Every clone made before is stale afterwards.               *)
FluxSystemFile == PlainFile(<<"c1", "flux-system", "gotk-sync.yaml">>)

RemotePush ==
    /\ remote' = IF FluxSystemFile \in remote
                 THEN remote \ {FluxSystemFile}
                 ELSE remote \cup {FluxSystemFile}
    /\ local' = [q \in Resources |-> IF local[q].has
                                      THEN [local[q] EXCEPT !.fresh = FALSE]
                                      ELSE local[q]]
    /\ UNCHANGED <<store, pc, queued, requeue, outcome, log>>

(* The delay a ReconcilerAction asked for has passed: the resource is      *)
(* queued again.                                                           *)
RequeueFires(r) ==
    /\ requeue[r] # None
    /\ requeue' = [requeue EXCEPT ![r] = None]
    /\ queued' = [queued EXCEPT ![r] = TRUE]
    /\ UNCHANGED <<store, remote, pc, local, outcome, log>>

(* The controller crashes and restarts: every task is gone with its        *)
(* temporary directories and timers, and the new process lists the store   *)
(* and queues every resource it finds.                                     *)
Crash ==
    /\ \E r \in Resources : pc[r] # "idle"
    /\ pc' = [r \in Resources |-> "idle"]
    /\ local' = [r \in Resources |-> NoClone]
    /\ requeue' = [r \in Resources |-> None]
    /\ outcome' = [r \in Resources |-> NoOutcome]
    /\ queued' = [r \in Resources |-> store[r].exists]
    /\ UNCHANGED <<store, remote, log>>

----------------------------------------------------------------------------
Init ==
    /\ store = [r \in Resources |-> Absent]
    /\ remote \in InitialTrees
    /\ pc = [r \in Resources |-> "idle"]
    /\ local = [r \in Resources |-> NoClone]
    /\ queued = [r \in Resources |-> FALSE]
    /\ requeue = [r \in Resources |-> None]
    /\ outcome = [r \in Resources |-> NoOutcome]
    /\ log = [r \in Resources |-> <<>>]

Next ==
    \/ \E r \in Resources : reconcile(r)
    \/ \E r \in Resources : add_finalizer_record(r)
    \/ \E r \in Resources : create_deployment(r)
    \/ \E r \in Resources : delete_deployment(r)
    \/ \E r \in Resources : delete_finalizer_record(r)
    \/ \E r \in Resources : StoreCreate(r)
    \/ \E r \in Resources : StoreDelete(r)
    \/ \E r \in Resources : StoreErase(r)
    \/ \E r \in Resources : RequeueFires(r)
    \/ RemotePush
    \/ Crash

Spec == Init /\ [][Next]_vars

(* The controller under the scheduling the claims about progress assume:   *)
(* a queued resource is reconciled, a delay that was asked for passes, a   *)
(* task that is at a call makes it, every call that can succeed            *)
(* infinitely often does succeed, and the store erases what it may erase.  *)
(* No other writer pushes and the controller is not killed.                *)
FairNext ==
    \/ \E r \in Resources : reconcile(r)
    \/ \E r \in Resources : add_finalizer_record(r)
    \/ \E r \in Resources : create_deployment(r)
    \/ \E r \in Resources : delete_deployment(r)
    \/ \E r \in Resources : delete_finalizer_record(r)
    \/ \E r \in Resources : StoreCreate(r)
    \/ \E r \in Resources : StoreDelete(r)
    \/ \E r \in Resources : StoreErase(r)
    \/ \E r \in Resources : RequeueFires(r)

Fairness ==
    \A r \in Resources :
        /\ WF_vars(reconcile(r))
        /\ WF_vars(RequeueFires(r))
        /\ WF_vars(StoreErase(r))
        /\ WF_vars(add_finalizer_record(r))
        /\ WF_vars(create_deployment(r))
        /\ WF_vars(delete_deployment(r))
        /\ WF_vars(delete_finalizer_record(r))
        /\ SF_vars(add_finalizer_record_ok(r))
        /\ SF_vars(create_deployment_commit(r))
        /\ SF_vars(create_deployment_push_ok(r))
        /\ SF_vars(delete_deployment_commit(r))
        /\ SF_vars(delete_deployment_push_ok(r))
        /\ SF_vars(delete_finalizer_record_ok(r))

FairSpec == Init /\ [][FairNext]_vars /\ Fairness

----------------------------------------------------------------------------
(* The GitOps workflow step by step.  The specification below follows the  *)
(* tasks of two assignments of one cluster through create_deployment and   *)
(* delete_deployment one call at a time, with the commits they make.       *)
(* Its state is the state above at a finer grain:                          *)
(*   remote    the head commit of the destination branch; a commit is      *)
(*             [parents, tree, author], and holds its parent commits, so   *)
(*             the head commit is the branch's whole history;              *)
(*   local[r]  the clone of r's task: the commit it was cloned at, its     *)
(*             working tree and index, the values the steps computed and   *)
(*             the commit made in it;                                      *)
(*   pc[r]     the workflow step r's task is about to take.                *)

(* Commits a history may hold (the initial one included).                  *)
MaxCommits == 3

Commit(parents, tree, author) == [parents |-> parents, tree |-> tree, author |-> author]

RECURSIVE Ancestors(_)
Ancestors(c) ==
    {c} \cup (IF c.parents = <<>> THEN {} ELSE Ancestors(c.parents[1]))

Depth(c) == Cardinality(Ancestors(c))

(* The destination repository before the tasks start: nothing for the      *)
(* cluster; or the tree an earlier Create of r1 committed next to the sync *)
(* agent's directory, from a template version that also had                *)
(* configmap.yaml.                                                         *)
StaleFile == RenderedFile(<<"c1", "app1", "configmap.yaml">>, "r1")

BootstrappedTree ==
    {PlainFile(<<"README.md">>), PlainFile(<<"c1", "flux-system", "gotk-sync.yaml">>)}

WorkflowTrees ==
    { {PlainFile(<<"README.md">>)},
      workflow_create_deployment(BootstrappedTree, "r1").tree \cup {StaleFile} }

(* Repository::clone: the clone's HEAD is the remote's head commit.        *)
Clone(head) ==
    [has |-> TRUE, head |-> head, wt |-> clone_cluster_gitops_repo(head.tree),
     output_relative_path |-> <<>>, paths |-> {}, commit |-> None]

(* repo.commit(Some("HEAD"), .., &tree, &[&parent_commit]) in commit_files, *)
(* with parent_commit = repo.head(): the commit's one parent is the        *)
(* clone's head.                                                           *)
repo_commit(clone, tree, r) == Commit(<<clone.head>>, tree, r)

(* A remote that takes every commit pushed.                                *)
FastForward_forced(commit, head) == TRUE

(* remote.push of refs/heads/main without force: the remote takes the      *)
(* commit when the branch's head is the commit's parent.                   *)
FastForward(commit, head) == commit.parents = <<head>>

IsCreate(r) == outcome[r].action = "Create"

Op(r) == IF IsCreate(r) THEN "create_deployment" ELSE "delete_deployment"

(* A step returned Ok: the task goes on to the next step.                  *)
StepOk(r, step, next) ==
    /\ Logged(r, <<Call(step, "ok")>>)
    /\ pc' = [pc EXCEPT ![r] = next]
    /\ UNCHANGED <<store, remote, queued, requeue, outcome>>

(* A step returned Err: `?` returns it from the workflow and from the      *)
(* reconciliation; the clone's temporary directory is dropped.             *)
StepErr(r, step, error) ==
    /\ Logged(r, <<Call(step, "err"), Call(Op(r), "err")>>)
    /\ ReturnErr(r, outcome[r].action, error)
    /\ UNCHANGED <<store, remote, queued>>

(* tempdir() and clone_cluster_gitops_repo (and, for a Create, the         *)
(* template's clone).                                                      *)
step_clone_ok(r) ==
    /\ pc[r] \in {"create_deployment", "delete_deployment"}
    /\ store[r].exists
    /\ Logged(r, <<Call(pc[r], "start"), Call("clone", "ok")>>)
    /\ local' = [local EXCEPT ![r] = Clone(remote)]
    /\ pc' = [pc EXCEPT ![r] = "remove_dir"]
    /\ UNCHANGED <<store, remote, queued, requeue, outcome>>

step_clone_err(r) ==
    /\ pc[r] \in {"create_deployment", "delete_deployment"}
    /\ Logged(r, <<Call(pc[r], "start"), Call("clone", "err"), Call(pc[r], "err")>>)
    /\ \E e \in {"IoError", "GitError"} : ReturnErr(r, outcome[r].action, e)
    /\ UNCHANGED <<store, remote, queued>>

step_clone(r) == step_clone_ok(r) \/ step_clone_err(r)

(* output_relative_path, repo.index() and index.remove_dir.                *)
step_remove_dir_ok(r) ==
    /\ pc[r] = "remove_dir"
    /\ LET path == IF IsCreate(r) THEN create_output_relative_path(r)
                                  ELSE delete_output_relative_path(r)
       IN  local' = [local EXCEPT ![r].output_relative_path = path,
                                  ![r].wt = remove_dir(@, path)]
    /\ StepOk(r, "remove_dir", IF IsCreate(r) THEN "render" ELSE "link")

step_remove_dir_err(r) ==
    /\ pc[r] = "remove_dir"
    /\ StepErr(r, "remove_dir", "GitError")

step_remove_dir(r) == step_remove_dir_ok(r) \/ step_remove_dir_err(r)

(* self.render(..)? of create_deployment.                                  *)
step_render_ok(r) ==
    /\ pc[r] = "render"
    /\ LET rendered == render(local[r].wt, local[r].output_relative_path, r)
       IN  local' = [local EXCEPT ![r].wt = rendered.wt, ![r].paths = rendered.paths]
    /\ StepOk(r, "render", "link")

step_render_err(r) ==
    /\ pc[r] = "render"
    /\ \E e \in {"IoError", "RenderError"} : StepErr(r, "render", e)

step_render(r) == step_render_ok(r) \/ step_render_err(r)

(* self.link(&cluster_path)?                                               *)
step_link_ok(r) ==
    /\ pc[r] = "link"
    /\ link(local[r].wt, <<cluster(r)>>).ok
    /\ local' = [local EXCEPT ![r].wt = link(@, <<cluster(r)>>).wt]
    /\ StepOk(r, "link", "commit_files")

(* link's error dropped instead of returned with `?`.                      *)
step_link_err_ignored(r) ==
    /\ pc[r] = "link"
    /\ Logged(r, <<Call("link", "err")>>)
    /\ pc' = [pc EXCEPT ![r] = "commit_files"]
    /\ UNCHANGED <<store, remote, queued, requeue, outcome, local>>

step_link_err(r) ==
    /\ pc[r] = "link"
    /\ StepErr(r, "link", "IoError")

step_link(r) == step_link_ok(r) \/ step_link_err(r)

(* paths.push(kustomization_path) (Create) or vec![kustomization_path]     *)
(* (Delete), then self.commit_files(..)?                                   *)
step_commit_files_ok(r) ==
    /\ pc[r] = "commit_files"
    /\ Depth(local[r].head) < MaxCommits
    /\ LET kustomization_path == <<cluster(r)>> \o <<"kustomization.yaml">>
           paths == local[r].paths \cup {kustomization_path}
           tree == commit_files(local[r].wt, paths)
       IN  local' = [local EXCEPT ![r].paths = paths,
                                  ![r].commit = Some(repo_commit(local[r], tree, r))]
    /\ StepOk(r, "commit_files", "push")

step_commit_files_err(r) ==
    /\ pc[r] = "commit_files"
    /\ StepErr(r, "commit_files", "GitError")

step_commit_files(r) == step_commit_files_ok(r) \/ step_commit_files_err(r)

(* self.push(..)?, then Ok(oid): a Create's reconciliation ends with the   *)
(* steady-state requeue, a Delete's goes on to delete_finalizer_record.    *)
step_push_ok(r) ==
    /\ pc[r] = "push"
    /\ FastForward(local[r].commit[1], remote)
    /\ remote' = local[r].commit[1]
    /\ Logged(r, <<Call("push", "ok"), Call(Op(r), "ok")>>)
    /\ IF IsCreate(r)
       THEN ReturnOk(r, "Create", Some(SteadyStateSecs))
       ELSE /\ local' = [local EXCEPT ![r] = NoClone]
            /\ Goto(r, "Delete", "delete_finalizer_record")
    /\ UNCHANGED <<store, queued>>

step_push_err(r) ==
    /\ pc[r] = "push"
    /\ StepErr(r, "push", "GitError")

step_push(r) == step_push_ok(r) \/ step_push_err(r)

WorkflowInit ==
    /\ store = [r \in Assignments |->
                  [exists |-> TRUE, deletion_timestamp |-> FALSE,
                   finalizers |-> {OurFinalizer}]]
    /\ remote \in {Commit(<<>>, tree, "-") : tree \in WorkflowTrees}
    /\ pc = [r \in Assignments |-> "idle"]
    /\ local = [r \in Assignments |-> NoClone]
    /\ queued = [r \in Assignments |-> TRUE]
    /\ requeue = [r \in Assignments |-> None]
    /\ outcome = [r \in Assignments |-> NoOutcome]
    /\ log = [r \in Assignments |-> <<>>]

WorkflowNext ==
    \/ \E r \in Assignments : reconcile(r)
    \/ \E r \in Assignments : add_finalizer_record(r)
    \/ \E r \in Assignments : step_clone(r)
    \/ \E r \in Assignments : step_remove_dir(r)
    \/ \E r \in Assignments : step_render(r)
    \/ \E r \in Assignments : step_link(r)
    \/ \E r \in Assignments : step_commit_files(r)
    \/ \E r \in Assignments : step_push(r)
    \/ \E r \in Assignments : delete_finalizer_record(r)
    \/ \E r \in Assignments : StoreDelete(r)
    \/ \E r \in Assignments : StoreErase(r)
    \/ \E r \in Assignments : RequeueFires(r)

WorkflowSpec == WorkflowInit /\ [][WorkflowNext]_vars

----------------------------------------------------------------------------
(* The template values of create_deployment.  The specification below      *)
(* applies the construction of template_values to every combination of     *)
(* spec.values of the three resources create_deployment is given:          *)
(*   store   the application, environment and assignment as read;          *)
(*   pc      "create_deployment" before the map is built, "render" after;  *)
(*   local   the map handed to render, once built.                         *)

(* Keys a values map may hold: two that create_deployment sets itself and  *)
(* one that only a resource can define.                                    *)
Keys == {"clusterName", "cloud", "replicas"}

(* HashMap::insert: the key's former value, if any, is replaced.           *)
insert(map, key, value) ==
    [k \in DOMAIN map \cup {key} |-> IF k = key THEN value ELSE map[k]]

(* `if let Some(values) = &spec.values { for (key, value) in values.iter() *)
(* { template_values.insert(&key, &value); } }`                            *)
insert_all(map, values) ==
    IF values = None
    THEN map
    ELSE [k \in DOMAIN map \cup DOMAIN values[1] |->
             IF k \in DOMAIN values[1] THEN values[1][k] ELSE map[k]]

(* template_values with the assignment's values inserted before the        *)
(* environment's.                                                          *)
template_values_assignment_first(application, environment, assignment) ==
    LET fixed == insert(insert(insert(<<>>, "clusterName", assignment.cluster),
                               "cloud", "azure"),
                        "cloudRegion", "eastus2")
    IN  insert_all(insert_all(insert_all(fixed, application.values),
                              assignment.values),
                   environment.values)

(* template_values of create_deployment: clusterName, cloud and            *)
(* cloudRegion, then the application's values, then the environment's,     *)
(* then the assignment's.                                                  *)
template_values(application, environment, assignment) ==
    LET fixed == insert(insert(insert(<<>>, "clusterName", assignment.cluster),
                               "cloud", "azure"),
                        "cloudRegion", "eastus2")
    IN  insert_all(insert_all(insert_all(fixed, application.values),
                              environment.values),
                   assignment.values)

(* spec.values of a resource: absent, or a map of some of the keys; the    *)
(* value tells which resource it came from.                                *)
ValuesOf(value) ==
    {None} \cup {Some(map) : map \in UNION {[D -> {value}] : D \in SUBSET Keys}}

ValuesInit ==
    /\ store \in [application : [values : ValuesOf("of-application")],
                  environment : [values : ValuesOf("of-environment")],
                  assignment : [cluster : {"c1"}, values : ValuesOf("of-assignment")]]
    /\ pc = "create_deployment"
    /\ local = None
    /\ remote = {}
    /\ queued = <<>>
    /\ requeue = <<>>
    /\ outcome = <<>>
    /\ log = <<>>

build_template_values ==
    /\ pc = "create_deployment"
    /\ local' = Some(template_values(store.application, store.environment,
                                     store.assignment))
    /\ pc' = "render"
    /\ UNCHANGED <<store, remote, queued, requeue, outcome, log>>

ValuesNext == build_template_values

ValuesSpec == ValuesInit /\ [][ValuesNext]_vars

----------------------------------------------------------------------------
(* Two assignments whose tasks push to the same branch, under the          *)
(* scheduling the claims about retries assume.  The destination repository *)
(* holds the cluster's directory from the start and no call fails on a     *)
(* transient error, except that a push may fail at any time; a push is     *)
(* rejected whenever the branch has moved since the clone.  A task that    *)
(* can take a step takes one, a delay that was asked for passes, and a     *)
(* task whose push could be accepted again and again (it has a fresh clone *)
(* each time it comes to push) is not rejected for ever: a rejected task   *)
(* comes back after the error backoff, long before the steady-state        *)
(* interval brings the other task back.                                    *)
PushInit ==
    /\ store = [r \in Assignments |->
                  [exists |-> TRUE, deletion_timestamp |-> FALSE,
                   finalizers |-> {OurFinalizer}]]
    /\ remote = {PlainFile(<<"README.md">>), FluxSystemFile}
    /\ pc = [r \in Assignments |-> "idle"]
    /\ local = [r \in Assignments |-> NoClone]
    /\ queued = [r \in Assignments |-> TRUE]
    /\ requeue = [r \in Assignments |-> None]
    /\ outcome = [r \in Assignments |-> NoOutcome]
    /\ log = [r \in Assignments |-> <<>>]

Task(r) ==
    \/ reconcile(r)
    \/ add_finalizer_record_ok(r)
    \/ create_deployment_commit(r)
    \/ create_deployment_push_ok(r)
    \/ create_deployment_push_err(r)
    \/ delete_deployment_commit(r)
    \/ delete_deployment_push_ok(r)
    \/ delete_deployment_push_err(r)
    \/ delete_finalizer_record_ok(r)

PushNext ==
    \/ \E r \in Assignments : Task(r)
    \/ \E r \in Assignments : StoreDelete(r)
    \/ \E r \in Assignments : StoreErase(r)
    \/ \E r \in Assignments : RequeueFires(r)

PushFairness ==
    \A r \in Assignments :
        /\ WF_vars(Task(r))
        /\ WF_vars(RequeueFires(r))
        /\ SF_vars(create_deployment_push_ok(r) \/ delete_deployment_push_ok(r))

PushSpec == PushInit /\ [][PushNext]_vars /\ PushFairness

----------------------------------------------------------------------------
(* Two assignments of one cluster that have the same name in two           *)
(* namespaces, ns1/app1 and ns2/app1: main watches the assignments of all  *)
(* namespaces (Api::all), so the controller reconciles both.  The state is *)
(* that of Spec; the destination repository holds the cluster's directory  *)
(* from the start.                                                         *)
Namesakes == {"r1", "r4"}

NamesakeInit ==
    /\ store = [r \in Namesakes |->
                  [exists |-> TRUE, deletion_timestamp |-> FALSE,
                   finalizers |-> {OurFinalizer}]]
    /\ remote = {PlainFile(<<"README.md">>), FluxSystemFile}
    /\ pc = [r \in Namesakes |-> "idle"]
    /\ local = [r \in Namesakes |-> NoClone]
    /\ queued = [r \in Namesakes |-> TRUE]
    /\ requeue = [r \in Namesakes |-> None]
    /\ outcome = [r \in Namesakes |-> NoOutcome]
    /\ log = [r \in Namesakes |-> <<>>]

NamesakeNext ==
    \/ \E r \in Namesakes : Task(r)
    \/ \E r \in Namesakes : StoreDelete(r)
    \/ \E r \in Namesakes : StoreErase(r)
    \/ \E r \in Namesakes : RequeueFires(r)

NamesakeSpec == NamesakeInit /\ [][NamesakeNext]_vars

----------------------------------------------------------------------------
(* One invocation of create_deployment or delete_deployment, statement by  *)
(* statement, with the temporary directories it works in and the three     *)
(* ways a statement ends: Ok, Err (returned with `?`) or the panic of an   *)
(* unwrap().  At this grain                                                *)
(*   local.tmp  the temporary directories that exist on the host;          *)
(*   local[r]   the stack frame of r's invocation: the TempDir values it   *)
(*              holds (temp_dirs) next to its clone;                       *)
(*   pc[r]      the statement r's task is about to run, "panicked" once    *)
(*              the task has unwound.                                      *)

(* Names a temporary directory may get.                                    *)
MaxTempDirs == 3

TempNames == 1..MaxTempDirs

Range(s) == {s[i] : i \in DOMAIN s}

(* tempdir(): a new directory under the host's temporary directory, under  *)
(* a random name that no existing entry has.                               *)
tempdir(tmp) == TempNames \ tmp

(* TempDir values that outlive the frame they were made in.                *)
drop_leaking(tmp, dirs) == tmp

(* Drop of the frame's TempDir values when create_deployment or            *)
(* delete_deployment is left, by return or by unwinding: each removes its  *)
(* directory and all below it.                                             *)
drop(tmp, dirs) == tmp \ Range(dirs)

(* The frame before the destination repository is cloned.                  *)
NoRepository ==
    [has |-> FALSE, head |-> None, wt |-> clone_cluster_gitops_repo({}),
     output_relative_path |-> <<>>, paths |-> {}, commit |-> None]

Frame(dirs, clone) ==
    [has |-> clone.has, head |-> clone.head, wt |-> clone.wt,
     output_relative_path |-> clone.output_relative_path,
     paths |-> clone.paths, commit |-> clone.commit, temp_dirs |-> dirs]

temp_dirs(r) == IF "temp_dirs" \in DOMAIN local[r] THEN local[r].temp_dirs ELSE <<>>

(* The statements of an invocation that end in `?`.                        *)
Statements ==
    {"create_deployment", "delete_deployment", "cluster_gitops_temp_dir",
     "clone_template_repo", "clone_cluster_gitops_repo", "remove_dir", "render",
     "link", "commit_files", "push"}

(* The Error a statement's `?` may return.                                 *)
Errors(at) ==
    CASE at \in {"create_deployment", "delete_deployment",
                 "cluster_gitops_temp_dir", "link"} -> {"IoError"}
      [] at \in {"clone_template_repo", "clone_cluster_gitops_repo",
                 "remove_dir", "commit_files", "push"} -> {"GitError"}
      [] at = "render" -> {"IoError", "RenderError"}

(* The statements with an unwrap() that can meet None or Err: the          *)
(* credentials callback of the two clones and of push (HOME unset, no user *)
(* name in the URL), metadata.name of the application and the assignment,  *)
(* register_template_string on a template that does not parse.             *)
Unwraps ==
    {"clone_template_repo", "clone_cluster_gitops_repo", "remove_dir", "render", "push"}

(* let template_temp_dir = tempdir()? of create_deployment,                *)
(* let application_gitops_temp_dir = tempdir()? of delete_deployment.      *)
first_temp_dir(r) ==
    /\ pc[r] \in {"create_deployment", "delete_deployment"}
    /\ \E d \in tempdir(local.tmp) :
          local' = [local EXCEPT !.tmp = @ \cup {d}, ![r] = Frame(<<d>>, NoRepository)]
    /\ Logged(r, <<Call(pc[r], "start")>>)
    /\ pc' = [pc EXCEPT ![r] = IF IsCreate(r) THEN "cluster_gitops_temp_dir"
                                              ELSE "clone_cluster_gitops_repo"]
    /\ UNCHANGED <<store, remote, queued, requeue, outcome>>

(* let cluster_gitops_temp_dir = tempdir()? of create_deployment.          *)
cluster_gitops_temp_dir(r) ==
    /\ pc[r] = "cluster_gitops_temp_dir"
    /\ \E d \in tempdir(local.tmp) :
          local' = [local EXCEPT !.tmp = @ \cup {d},
                                 ![r].temp_dirs = Append(@, d)]
    /\ pc' = [pc EXCEPT ![r] = "clone_template_repo"]
    /\ UNCHANGED <<store, remote, queued, requeue, outcome, log>>

(* self.clone_template_repo(template, &template_temp_dir)?                 *)
clone_template_repo(r) ==
    /\ pc[r] = "clone_template_repo"
    /\ pc' = [pc EXCEPT ![r] = "clone_cluster_gitops_repo"]
    /\ UNCHANGED <<store, remote, local, queued, requeue, outcome, log>>

(* self.clone_cluster_gitops_repo(&..temp_dir)?                            *)
cluster_gitops_repo(r) ==
    /\ pc[r] = "clone_cluster_gitops_repo"
    /\ local' = [local EXCEPT ![r] = Frame(@.temp_dirs, Clone(remote))]
    /\ Logged(r, <<Call("clone", "ok")>>)
    /\ pc' = [pc EXCEPT ![r] = "remove_dir"]
    /\ UNCHANGED <<store, remote, queued, requeue, outcome>>

(* self.push(..)? and Ok(oid): the remote takes the commit and the         *)
(* invocation returns, dropping its frame.                                 *)
pushed(r) ==
    /\ pc[r] = "push"
    /\ FastForward(local[r].commit[1], remote)
    /\ remote' = local[r].commit[1]
    /\ Logged(r, <<Call("push", "ok"), Call(Op(r), "ok")>>)
    /\ local' = [local EXCEPT !.tmp = drop(@, temp_dirs(r)), ![r] = NoClone]
    /\ IF IsCreate(r)
       THEN /\ pc' = [pc EXCEPT ![r] = "idle"]
            /\ outcome' = [outcome EXCEPT ![r] = Ok("Create")]
            /\ requeue' = [requeue EXCEPT ![r] = Some(SteadyStateSecs)]
       ELSE Goto(r, "Delete", "delete_finalizer_record")
    /\ UNCHANGED <<store, queued>>

(* returns_err where the error of push comes after the remote has taken    *)
(* the commit.                                                             *)
returns_err_after_push(r) ==
    /\ pc[r] \in Statements
    /\ \E e \in Errors(pc[r]) :
          /\ outcome' = [outcome EXCEPT ![r] = Err(outcome[r].action, e)]
          /\ requeue' = [requeue EXCEPT ![r] = on_error(e).requeue_after]
    /\ Logged(r, <<Call(pc[r], "err"), Call(Op(r), "err")>>)
    /\ pc' = [pc EXCEPT ![r] = "idle"]
    /\ local' = [local EXCEPT !.tmp = drop(@, temp_dirs(r)), ![r] = NoClone]
    /\ remote' = IF pc[r] = "push" /\ FastForward(local[r].commit[1], remote)
                 THEN local[r].commit[1] ELSE remote
    /\ UNCHANGED <<store, queued>>

(* A statement's `?` returns Err(e) from the invocation, and reconcile's   *)
(* `?` returns it to the controller.                                       *)
returns_err(r) ==
    /\ pc[r] \in Statements
    /\ \E e \in Errors(pc[r]) :
          /\ outcome' = [outcome EXCEPT ![r] = Err(outcome[r].action, e)]
          /\ requeue' = [requeue EXCEPT ![r] = on_error(e).requeue_after]
    /\ Logged(r, <<Call(pc[r], "err"), Call(Op(r), "err")>>)
    /\ pc' = [pc EXCEPT ![r] = "idle"]
    /\ local' = [local EXCEPT !.tmp = drop(@, temp_dirs(r)), ![r] = NoClone]
    /\ UNCHANGED <<store, remote, queued>>

(* An unwrap() panics: the task unwinds, which drops the frame, and        *)
(* returns nothing to the controller.                                      *)
panics(r) ==
    /\ pc[r] \in Unwraps
    /\ Logged(r, <<Call(pc[r], "panic")>>)
    /\ pc' = [pc EXCEPT ![r] = "panicked"]
    /\ local' = [local EXCEPT !.tmp = drop(@, temp_dirs(r)), ![r] = NoClone]
    /\ UNCHANGED <<store, remote, queued, requeue, outcome>>

(* r1 exists and is to be created, r2 is marked for deletion; the          *)
(* destination repository holds what a Create of r2 committed.             *)
InvocationInit ==
    /\ store = [r \in Assignments |->
                  [exists |-> TRUE, deletion_timestamp |-> (r = "r2"),
                   finalizers |-> {OurFinalizer}]]
    /\ remote = Commit(<<>>, workflow_create_deployment(BootstrappedTree, "r2").tree, "-")
    /\ pc = [r \in Assignments |-> "idle"]
    /\ local = [r \in Assignments \cup {"tmp"} |-> IF r = "tmp" THEN {} ELSE NoClone]
    /\ queued = [r \in Assignments |-> TRUE]
    /\ requeue = [r \in Assignments |-> None]
    /\ outcome = [r \in Assignments |-> NoOutcome]
    /\ log = [r \in Assignments |-> <<>>]

InvocationNext ==
    \/ \E r \in Assignments : reconcile(r)
    \/ \E r \in Assignments : add_finalizer_record_ok(r)
    \/ \E r \in Assignments : first_temp_dir(r)
    \/ \E r \in Assignments : cluster_gitops_temp_dir(r)
    \/ \E r \in Assignments : clone_template_repo(r)
    \/ \E r \in Assignments : cluster_gitops_repo(r)
    \/ \E r \in Assignments : step_remove_dir_ok(r)
    \/ \E r \in Assignments : step_render_ok(r)
    \/ \E r \in Assignments : step_link_ok(r)
    \/ \E r \in Assignments : step_commit_files_ok(r)
    \/ \E r \in Assignments : pushed(r)
    \/ \E r \in Assignments : returns_err(r)
    \/ \E r \in Assignments : panics(r)
    \/ \E r \in Assignments : delete_finalizer_record(r)
    \/ \E r \in Assignments : StoreErase(r)
    \/ \E r \in Assignments : RequeueFires(r)

InvocationSpec == InvocationInit /\ [][InvocationNext]_vars

----------------------------------------------------------------------------
(* The label rules of src/src/models.  The specification below applies     *)
(* AssignmentSpec::matches to every cluster and rule list of a bounded     *)
(* set:                                                                    *)
(*   store   the cluster and the assignment rule;                          *)
(*   pc      "matches" before the call, "returned" after;                  *)
(*   local   what matches returned.                                        *)
(* Label values are sequences of characters and a Regex is a sequence of   *)
(* tokens: a character, any character, either of them starred, ^ and $.    *)

(* Label rules an assignment rule may hold.                                *)
MaxLabelRules == 2

LabelKeys == {"cloud", "region"}

LabelValues == {<<"a", "z">>, <<"g", "c">>, <<"z">>}

Char(c) == [kind |-> "char", c |-> c, star |-> FALSE]
AnyStar == [kind |-> "any", c |-> "-", star |-> TRUE]
LineStart == [kind |-> "start", c |-> "-", star |-> FALSE]
LineEnd == [kind |-> "end", c |-> "-", star |-> FALSE]

(* The patterns az, z, a.* , ^z and c$.                                    *)
Regexes ==
    { <<Char("a"), Char("z")>>, <<Char("z")>>, <<Char("a"), AnyStar>>,
      <<LineStart, Char("z")>>, <<Char("c"), LineEnd>> }

Accepts(token, c) == token.kind = "any" \/ (token.kind = "char" /\ token.c = c)

(* The pattern matches a prefix of the text that is left; first says that  *)
(* the text left is the whole text.                                        *)
RECURSIVE MatchHere(_, _, _)
MatchHere(pattern, text, first) ==
    IF pattern = <<>> THEN TRUE
    ELSE LET token == Head(pattern)
         IN  CASE token.kind = "start" ->
                    first /\ MatchHere(Tail(pattern), text, first)
               [] token.kind = "end" ->
                    text = <<>> /\ MatchHere(Tail(pattern), text, first)
               [] token.kind \in {"char", "any"} /\ token.star ->
                    \/ MatchHere(Tail(pattern), text, first)
                    \/ /\ text # <<>>
                       /\ Accepts(token, Head(text))
                       /\ MatchHere(pattern, Tail(text), FALSE)
               [] token.kind \in {"char", "any"} /\ ~token.star ->
                    /\ text # <<>>
                    /\ Accepts(token, Head(text))
                    /\ MatchHere(Tail(pattern), Tail(text), FALSE)

(* Regex::is_match: the pattern matches somewhere in the text.             *)
is_match(regex, text) ==
    \E i \in 1..(Len(text) + 1) : MatchHere(regex, SubSeq(text, i, Len(text)), i = 1)

(* LabelMatchSpec::matches taking a cluster without the label as a match.  *)
LabelMatchSpec_matches_without_label(self, candidate) ==
    IF self.label \in DOMAIN candidate.labels
    THEN is_match(self.regex, candidate.labels[self.label])
    ELSE TRUE

(* LabelMatchSpec::matches: match cluster.labels.get(&self.label)          *)
(* { Some(value) => self.regex.is_match(value), None => false }.           *)
LabelMatchSpec_matches(self, candidate) ==
    IF self.label \in DOMAIN candidate.labels
    THEN is_match(self.regex, candidate.labels[self.label])
    ELSE FALSE

(* The loop of AssignmentSpec::matches from its i-th label rule on: the    *)
(* first rule that does not match returns false, the end of the list true. *)
RECURSIVE matches_from(_, _, _)
matches_from(matching_labels, candidate, i) ==
    IF i > Len(matching_labels) THEN TRUE
    ELSE IF ~LabelMatchSpec_matches(matching_labels[i], candidate) THEN FALSE
    ELSE matches_from(matching_labels, candidate, i + 1)

AssignmentSpec_matches(self, candidate) == matches_from(self.matching_labels, candidate, 1)

Clusters ==
    {[name |-> "c1", labels |-> labels] :
        labels \in UNION {[D -> LabelValues] : D \in SUBSET LabelKeys}}

LabelMatchSpecs == [label : LabelKeys, regex : Regexes]

AssignmentSpecs ==
    {[id |-> "1", matching_labels |-> rules, max_assignments |-> None] :
        rules \in UNION {[1..n -> LabelMatchSpecs] : n \in 0..MaxLabelRules}}

MatchInit ==
    /\ store \in [cluster : Clusters, assignment_spec : AssignmentSpecs]
    /\ pc = "matches"
    /\ local = None
    /\ remote = {}
    /\ queued = <<>>
    /\ requeue = <<>>
    /\ outcome = <<>>
    /\ log = <<>>

matches ==
    /\ pc = "matches"
    /\ local' = Some(AssignmentSpec_matches(store.assignment_spec, store.cluster))
    /\ pc' = "returned"
    /\ UNCHANGED <<store, remote, queued, requeue, outcome, log>>

MatchNext == matches

MatchSpec == MatchInit /\ [][MatchNext]_vars

----------------------------------------------------------------------------
(* The two renderers of the source, GitopsWorkflow::render, which          *)
(* create_deployment calls, and render of src/src/utils/render.rs, entry   *)
(* by entry over a template tree.  The specification below applies both to *)
(* every template tree and values map of a bounded set:                    *)
(*   store   the template directory (its files, each with its template     *)
(*           text) and the values;                                         *)
(*   pc      "render" before the call, "returned" after;                   *)
(*   local   which renderer ran and what it left: how it ended (Ok, Err or *)
(*           panic), its paths vector, the files it wrote with their bytes *)
(*           and the directories it created.                               *)
(* A file name is its first character followed by the rest, a path is a    *)
(* sequence of names, and a template text is a sequence of tokens.         *)

(* Templates the file deployment.yaml of a template tree may have.         *)
Text(s) == [kind |-> "text", arg |-> s]
Var(key) == [kind |-> "var", arg |-> key]
Partial(key) == [kind |-> "partial", arg |-> key]
Unclosed == [kind |-> "unclosed", arg |-> "{{"]

DeploymentTemplates ==
    { <<Text("cluster: "), Var("clusterName")>>,
      <<Text("replicas: "), Var("replicas"), Text(";")>>,
      <<Text("labels: "), Partial("labels")>>,
      <<Text("cluster: "), Unclosed>> }

TemplateFile(path, template) == [path |-> path, template |-> template]

DeploymentYaml == <<"d", "eployment.yaml">>

(* The files a template tree may have besides deployment.yaml: one more at *)
(* the top, a dotted file, a dotted directory at the top (the clone's own  *)
(* .git when spec.path is the repository's root), a subdirectory and a     *)
(* dotted directory below it.                                              *)
OtherTemplateFiles ==
    { TemplateFile(<< <<"s", "ervice.yaml">> >>, <<Text("port: 80")>>),
      TemplateFile(<< <<".", "env">> >>, <<Text("cluster="), Var("clusterName")>>),
      TemplateFile(<< <<".", "git">>, <<"c", "onfig">> >>, <<Text("[core]")>>),
      TemplateFile(<< <<"b", "ase">>, <<"c", "onfigmap.yaml">> >>,
                   <<Text("cluster: "), Var("clusterName")>>),
      TemplateFile(<< <<"b", "ase">>, <<".", "hidden">>, <<"n", "otes.md">> >>,
                   <<Text("notes")>>) }

TemplateTrees ==
    {others \cup deployment :
        others \in SUBSET OtherTemplateFiles,
        deployment \in {{}} \cup {{TemplateFile(<<DeploymentYaml>>, t)} :
                                     t \in DeploymentTemplates}}

TemplateValues ==
    {[clusterName |-> "c1"], [clusterName |-> "c1", replicas |-> "3"]}

(* The directory rendered into: <cluster>/<assignment>.                    *)
RootRelativePath == << <<"c", "1">>, <<"a", "pp1">> >>

(* std::fs::read_dir(template_path): the names directly below it.          *)
Entries(tree, template_path) ==
    {f.path[Len(template_path) + 1] :
        f \in {g \in tree : IsPrefix(template_path, g.path)
                            /\ Len(g.path) > Len(template_path)}}

(* entry.file_type()?.is_dir()                                             *)
is_dir(tree, entry_template_path) ==
    \E f \in tree : IsPrefix(entry_template_path, f.path)
                    /\ Len(f.path) > Len(entry_template_path)

(* entry.file_name().to_str().unwrap().chars().next().unwrap() == '.'      *)
is_dotted_file_name(file_name) == Head(file_name) = "."

(* std::fs::read_to_string(entry_template_path)?                           *)
read_to_string(tree, entry_template_path) ==
    (CHOOSE f \in tree : f.path = entry_template_path).template

(* handlebars.register_template_string("template", template): Err for a    *)
(* text that does not parse.                                               *)
register_template_string(template) ==
    IF \E i \in 1..Len(template) : template[i].kind = "unclosed" THEN "Err" ELSE "Ok"

(* handlebars.render("template", values) of Handlebars::new(), which is    *)
(* not put in strict mode: a variable the values lack renders as the empty *)
(* string; a partial that is not registered is a RenderError.              *)
handlebars_render(template, values) ==
    IF \E i \in 1..Len(template) : template[i].kind = "partial"
    THEN [result |-> "Err", bytes |-> <<>>]
    ELSE [result |-> "Ok",
          bytes |-> [i \in 1..Len(template) |->
                        IF template[i].kind = "var"
                        THEN IF template[i].arg \in DOMAIN values
                             THEN values[template[i].arg] ELSE ""
                        ELSE template[i].arg]]

(* std::fs::write(output_absolute_path, bytes): the file is created or     *)
(* replaced.                                                               *)
fs_write(files, path, bytes) ==
    {f \in files : f.path # path} \cup {[path |-> path, bytes |-> bytes]}

(* paths.append(&mut subpaths) leaving paths as it was.                    *)
append_nothing(paths, subpaths) == paths

(* paths.append(&mut subpaths)                                             *)
append(paths, subpaths) == paths \o subpaths

(* render: create_dir_all of the output directory, then the for loop over  *)
(* read_dir(template_path).  dotted_skipped tells the two renderers apart: *)
(* GitopsWorkflow::render passes by a directory whose name is dotted,      *)
(* utils::render::render descends into every directory.  The value is the  *)
(* state the call leaves: paths is the local vector, which the caller gets *)
(* with Ok only.                                                           *)
RECURSIVE render_entries(_, _, _, _, _, _, _)
RECURSIVE render_directory(_, _, _, _, _, _)

render_directory(tree, template_path, root_relative_path, values, dotted_skipped, out) ==
    render_entries(tree, template_path, root_relative_path, values, dotted_skipped,
                   read_dir(Entries(tree, template_path)),
                   [out EXCEPT !.paths = <<>>,
                               !.dirs = @ \cup ParentDirs(root_relative_path)
                                          \cup {root_relative_path}])

render_entries(tree, template_path, root_relative_path, values, dotted_skipped, entries, out) ==
    IF entries = <<>> THEN out
    ELSE LET file_name == Head(entries)
             entry_template_path == template_path \o <<file_name>>
             output_relative_path == root_relative_path \o <<file_name>>
         IN  IF is_dir(tree, entry_template_path)
             THEN IF dotted_skipped /\ is_dotted_file_name(file_name)
                  THEN render_entries(tree, template_path, root_relative_path, values,
                                      dotted_skipped, Tail(entries), out)
                  ELSE LET sub == render_directory(tree, entry_template_path,
                                                   output_relative_path, values,
                                                   dotted_skipped, out)
                           got == [sub EXCEPT !.paths = append(out.paths, sub.paths)]
                       IN  IF sub.result # "Ok" THEN got
                           ELSE render_entries(tree, template_path, root_relative_path,
                                               values, dotted_skipped, Tail(entries), got)
             ELSE LET with_path == [out EXCEPT !.paths = Append(@, output_relative_path)]
                      template == read_to_string(tree, entry_template_path)
                      rendered_file == handlebars_render(template, values)
                  IN  IF register_template_string(template) = "Err"
                      THEN [with_path EXCEPT !.result = "panic"]
                      ELSE IF rendered_file.result = "Err"
                      THEN [with_path EXCEPT !.result = "Err", !.error = "RenderError"]
                      ELSE render_entries(tree, template_path, root_relative_path, values,
                                          dotted_skipped, Tail(entries),
                                          [with_path EXCEPT !.files =
                                              fs_write(@, output_relative_path,
                                                       rendered_file.bytes)])

(* The output tree before the call: nothing below the output directory.    *)
NothingRendered ==
    [result |-> "Ok", error |-> "-", paths |-> <<>>, files |-> {}, dirs |-> {}]

GitopsWorkflow_render(tree, root_relative_path, values) ==
    render_directory(tree, <<>>, root_relative_path, values, TRUE, NothingRendered)

utils_render(tree, root_relative_path, values) ==
    render_directory(tree, <<>>, root_relative_path, values, FALSE, NothingRendered)

RenderInit ==
    /\ store \in [template : TemplateTrees, values : TemplateValues]
    /\ pc = "render"
    /\ local = None
    /\ remote = {}
    /\ queued = <<>>
    /\ requeue = <<>>
    /\ outcome = <<>>
    /\ log = <<>>

Rendered(by, out) ==
    /\ pc = "render"
    /\ local' = Some([by |-> by, result |-> out.result, error |-> out.error,
                      paths |-> out.paths, files |-> out.files, dirs |-> out.dirs])
    /\ pc' = "returned"
    /\ UNCHANGED <<store, remote, queued, requeue, outcome, log>>

render_application ==
    Rendered("GitopsWorkflow::render",
             GitopsWorkflow_render(store.template, RootRelativePath, store.values))

render_workload ==
    Rendered("utils::render::render",
             utils_render(store.template, RootRelativePath, store.values))

RenderNext == render_application \/ render_workload

RenderSpec == RenderInit /\ [][RenderNext]_vars

----------------------------------------------------------------------------
(* Properties.                                                             *)

Namespaced == {r \in Resources : namespace(r) # None}

HasFinalizer(r) == store[r].exists /\ OurFinalizer \in store[r].finalizers

Calls(r, op) == {i \in 1..Len(log[r]) : log[r][i][1] = op}

Made(r, call) == {i \in 1..Len(log[r]) : log[r][i] = call}

(* C1: in every reachable state, if rendered artifacts of an assignment    *)
(* exist in the destination repository, then the resource is in the store  *)
(* and carries the controller's finalizer.                                 *)
C1_FinalizerWhileArtifacts ==
    \A r \in Resources : Artifacts(remote, r) # {} => HasFinalizer(r)

(* A Delete is under way, after a Create had materialized: the artifacts   *)
(* are still in the repository and the finalizer is still there.           *)
C1_Witness ==
    /\ Artifacts(remote, "r1") # {}
    /\ store["r1"].deletion_timestamp
    /\ pc["r1"] = "delete_push"
    /\ HasFinalizer("r1")

(* C2: within one reconciliation, create_deployment starts only after      *)
(* add_finalizer_record returned Ok, delete_finalizer_record is called     *)
(* only after delete_deployment returned Ok, and neither pair is ever      *)
(* called in the other order.                                              *)
C2_CallOrder ==
    \A r \in Resources :
        /\ \A i \in Calls(r, "create_deployment") :
              /\ \E j \in Made(r, Call("add_finalizer_record", "ok")) : j < i
              /\ \A j \in Calls(r, "add_finalizer_record") : j < i
        /\ \A i \in Calls(r, "delete_finalizer_record") :
              /\ \E j \in Made(r, Call("delete_deployment", "ok")) : j < i
              /\ \A j \in Calls(r, "delete_deployment") : j < i

(* A Delete has made both of its calls, in a reconciliation that returned. *)
C2_Witness ==
    /\ Made("r1", Call("delete_finalizer_record", "ok")) # {}
    /\ Made("r1", Call("delete_deployment", "ok")) # {}
    /\ outcome["r1"] = Ok("Delete")

(* C3: every reconciliation of a namespaced resource classifies it as      *)
(* Delete when the deletion marker is present, with or without finalizer,  *)
(* and as Create when the deletion marker is absent and a finalizer is     *)
(* present.                                                                *)
C3_Classification ==
    [][\A r \in Namespaced :
          reconcile(r) =>
              /\ store[r].deletion_timestamp => outcome'[r] = Running("Delete")
              /\ (~store[r].deletion_timestamp /\ store[r].finalizers # {})
                    => outcome'[r] = Running("Create")]_vars

(* A resource marked for deletion whose finalizers are already gone has    *)
(* been classified as Delete.                                              *)
C3_Witness ==
    /\ store["r1"].exists
    /\ store["r1"].deletion_timestamp
    /\ store["r1"].finalizers = {}
    /\ outcome["r1"] = Running("Delete")
    /\ log["r1"] = <<>>

(* C4: a reconciliation of a namespaced resource that has neither a        *)
(* deletion marker nor a finalizer goes on to add the finalizer (and then  *)
(* to materialize); it does not end as a no-op.                            *)
C4_FreshResourceIsCreated ==
    [][\A r \in Namespaced :
          (reconcile(r) /\ ~store[r].deletion_timestamp /\ store[r].finalizers = {})
              => /\ pc'[r] = "add_finalizer_record"
                 /\ outcome'[r] # Ok("NoOp")]_vars

(* C5: every namespaced resource that is in the store without finalizer    *)
(* and without deletion marker eventually has the finalizer and its        *)
(* artifacts in the repository, unless it is marked for deletion.          *)
Fresh(r) ==
    store[r].exists /\ ~store[r].deletion_timestamp /\ store[r].finalizers = {}

Materialized(r) == HasFinalizer(r) /\ Artifacts(remote, r) # {}

C5_NoOpIsTransient ==
    \A r \in Namespaced :
        Fresh(r) ~> (Materialized(r) \/ ~store[r].exists \/ store[r].deletion_timestamp)

(* C6: a step in which delete_deployment returns an error ends the         *)
(* reconciliation with that error, leaves the resource in the store as it  *)
(* was and makes no call of delete_finalizer_record; and the task reaches  *)
(* delete_finalizer_record only with the artifacts out of the repository.  *)
DeleteDeploymentFails(r) ==
    /\ log'[r] # log[r]
    /\ Len(log'[r]) > 0
    /\ log'[r][Len(log'[r])] = Call("delete_deployment", "err")

C6_FailedDeleteKeepsFinalizer ==
    [][\A r \in Resources :
          /\ DeleteDeploymentFails(r) =>
                /\ store'[r] = store[r]
                /\ pc'[r] = "idle"
                /\ outcome'[r].result = "Err" /\ outcome'[r].action = "Delete"
                /\ \A i \in 1..Len(log'[r]) : log'[r][i][1] # "delete_finalizer_record"
          /\ pc'[r] = "delete_finalizer_record" =>
                /\ Artifacts(remote', r) = {}
                /\ \E i \in 1..Len(log'[r]) : log'[r][i] = Call("delete_deployment", "ok")]_vars

(* The push of a Delete failed while the artifacts were in the repository: *)
(* the reconciliation returned the error and the finalizer is still there. *)
C6_Witness ==
    /\ Made("r1", Call("push", "err")) # {}
    /\ outcome["r1"] = Err("Delete", "GitError")
    /\ HasFinalizer("r1")
    /\ Artifacts(remote, "r1") # {}

(* C7: once a namespaced resource that carries the finalizer is marked for *)
(* deletion, its artifacts are eventually out of the repository and its    *)
(* finalizers cleared (or the resource erased), provided that from some    *)
(* time on no call fails on a transient error.                             *)
TransientFailure(r) ==
    outcome[r].result = "Err" /\ Made(r, Call("link", "err")) = {}

C7_DeleteCompletes ==
    \A r \in Namespaced :
        <>[](~TransientFailure(r)) =>
            ((HasFinalizer(r) /\ store[r].deletion_timestamp)
                ~> (~store[r].exists
                       \/ (store[r].finalizers = {} /\ Artifacts(remote, r) = {})))

(* C8: a resource without namespace only ever has reconciliations that     *)
(* return UserInputError without making any call: no patch, no clone, and  *)
(* nothing of it in the repository.                                        *)
C8_MissingNamespace ==
    \A r \in Resources \ Namespaced :
        /\ pc[r] = "idle"
        /\ log[r] = <<>>
        /\ ~local[r].has
        /\ outcome[r] \in {NoOutcome, Err("-", "UserInputError")}
        /\ Artifacts(remote, r) = {}

(* The resource without namespace was reconciled while it carried the      *)
(* deletion marker and a finalizer.                                        *)
C8_Witness ==
    /\ outcome["r3"] = Err("-", "UserInputError")
    /\ store["r3"].deletion_timestamp
    /\ store["r3"].finalizers # {}
    /\ ~queued["r3"]

(* C9: a reconciliation that failed with the missing-namespace error is    *)
(* not requeued.                                                           *)
C9_UserInputErrorNotRequeued ==
    \A r \in Resources :
        (pc[r] = "idle" /\ outcome[r].error = "UserInputError") => requeue[r] = None

(* C9, amended: after a reconciliation failed with the missing-namespace   *)
(* error the resource is requeued after the error backoff, or that delay   *)
(* has passed and the resource is queued again.                            *)
C9_UserInputErrorRequeued ==
    \A r \in Resources :
        (pc[r] = "idle" /\ outcome[r].error = "UserInputError")
            => \/ requeue[r] = Some(ErrorBackoffSecs)
               \/ requeue[r] = None /\ queued[r]

(* The missing-namespace error was returned and the backoff is running.    *)
C9_Witness ==
    /\ outcome["r3"] = Err("-", "UserInputError")
    /\ requeue["r3"] = Some(ErrorBackoffSecs)
    /\ ~store["r3"].deletion_timestamp

(* C10: a step that ends a reconciliation sets the requeue delay from the  *)
(* outcome alone: the steady-state interval after a successful Create, no  *)
(* requeue after a successful Delete, the error backoff after any error;   *)
(* the two delays differ.                                                  *)
Returns(r) == pc'[r] = "idle" /\ outcome'[r] # outcome[r] /\ outcome'[r] # NoOutcome

C10_RequeueDelay ==
    [][\A r \in Resources :
          Returns(r) =>
              /\ outcome'[r] = Ok("Create") => requeue'[r] = Some(SteadyStateSecs)
              /\ outcome'[r] = Ok("Delete") => requeue'[r] = None
              /\ outcome'[r].result = "Err" => requeue'[r] = Some(ErrorBackoffSecs)
              /\ ErrorBackoffSecs # SteadyStateSecs]_vars

(* A Create returned Ok and a requeue after the steady-state interval.     *)
C10_Witness ==
    /\ outcome["r1"] = Ok("Create")
    /\ requeue["r1"] = Some(SteadyStateSecs)
    /\ Artifacts(remote, "r1") # {}

(* C11: a successful add_finalizer_record leaves the controller's          *)
(* finalizer on the resource, and when the resource already carried it,    *)
(* the resource's finalizers after the call are those before the call,     *)
(* other owners' finalizers included.                                      *)
C11_AddFinalizerIdempotent ==
    [][\A r \in Resources :
          add_finalizer_record_ok(r) =>
              /\ OurFinalizer \in store'[r].finalizers
              /\ OurFinalizer \in store[r].finalizers
                    => store'[r].finalizers = store[r].finalizers]_vars

(* The workflow steps a reconciliation logged, in the order of the log.    *)
StepNames == {"clone", "remove_dir", "render", "link", "commit_files", "push"}

IsStep(call) == call[1] \in StepNames

StepLog(calls) == SelectSeq(calls, IsStep)

(* The order of the steps in the two workflow functions.                   *)
StepOrder(calls) ==
    IF \E i \in 1..Len(calls) : calls[i] = Call("delete_deployment", "start")
    THEN <<"clone", "remove_dir", "link", "commit_files", "push">>
    ELSE <<"clone", "remove_dir", "render", "link", "commit_files", "push">>

(* Steps run in the given order, none after one that failed.               *)
InSequence(steps, order) ==
    /\ Len(steps) <= Len(order)
    /\ \A i \in 1..Len(steps) : steps[i][1] = order[i]
    /\ \A i \in 1..(Len(steps) - 1) : steps[i][2] = "ok"

Succeeded(steps, step) == \E i \in 1..Len(steps) : steps[i] = Call(step, "ok")

(* What the steps logged by r's task say about where the task is.          *)
StepsDone(r, steps) ==
    /\ InSequence(steps, StepOrder(log[r]))
    /\ (Len(steps) > 0 /\ steps[Len(steps)][2] = "err")
          => pc[r] = "idle" /\ outcome[r].result = "Err"
    /\ (local[r].has /\ local[r].commit # None)
          => /\ Succeeded(steps, "link")
             /\ Succeeded(steps, "commit_files")
             /\ IsCreate(r) => Succeeded(steps, "render")
    /\ pc[r] = "push" => local[r].has /\ local[r].commit # None

(* C12: the steps a create_deployment or delete_deployment has run are an  *)
(* initial part of clone, index removal, render (Create only), link,       *)
(* commit, push, in that order, and only the last of them may have failed; *)
(* a failed step has ended the reconciliation with an error; a clone holds *)
(* a commit only after render and link succeeded, and a task is at its     *)
(* push only with the commit its commit step made.                         *)
C12_StepsInSequence == \A r \in Assignments : StepsDone(r, StepLog(log[r]))

(* A Delete stopped at link, which failed: nothing was committed, the      *)
(* branch is where it was and the reconciliation returned the error.       *)
C12_Witness ==
    /\ Made("r1", Call("delete_deployment", "start")) # {}
    /\ Made("r1", Call("link", "err")) # {}
    /\ Calls("r1", "commit_files") = {}
    /\ outcome["r1"] = Err("Delete", "IoError")
    /\ remote.parents = <<>>

(* C13: whatever the repository and the store held before, a task that has *)
(* computed its output path, in create_deployment or in delete_deployment, *)
(* has computed <cluster>/<assignment name>, and the files it renders are  *)
(* files of that directory.                                                *)
C13_OutputPath ==
    \A r \in Assignments :
        (local[r].has /\ pc[r] \in {"render", "link", "commit_files"}) =>
            /\ local[r].output_relative_path = <<cluster(r), name(r)>>
            /\ \A p \in local[r].paths : IsPrefix(<<cluster(r), name(r)>>, p)

(* A Delete of r1 has computed its path, in a clone that holds what a      *)
(* Create of r1 pushed.                                                    *)
C13_Witness ==
    /\ pc["r1"] = "link"
    /\ outcome["r1"] = Running("Delete")
    /\ local["r1"].head.author = "r1"
    /\ local["r1"].output_relative_path = <<"c1", "app1">>

(* The files of a tree below a directory.                                  *)
Under(tree, path) == {f \in tree : IsPrefix(path, f.path)}

(* C14: the tree of a commit made by a Create holds, below                 *)
(* <cluster>/<assignment>, the files this Create rendered and no other     *)
(* file.                                                                   *)
C14_ExactlyRendered ==
    \A r \in Assignments :
        (local[r].has /\ local[r].commit # None /\ IsCreate(r)) =>
            Under(local[r].commit[1].tree, <<cluster(r), name(r)>>)
                = {RenderedFile(<<cluster(r), name(r), t>>, r) : t \in TemplateFiles}

(* A Create of r1 committed in a clone of the tree that tracked            *)
(* configmap.yaml, a file of an earlier template version.                  *)
C14_Witness ==
    /\ pc["r1"] = "push"
    /\ IsCreate("r1")
    /\ StaleFile \in local["r1"].head.tree
    /\ StaleFile \notin local["r1"].commit[1].tree

(* The directories kustomization.yaml of a directory lists, in a tree.     *)
Listed(tree, directory) ==
    UNION {{f.resources[i] : i \in 1..Len(f.resources)} :
              f \in {g \in tree : g.path = directory \o <<"kustomization.yaml">>}}

(* C15: a push of a Create that the remote accepts leaves the branch with  *)
(* every rendered file below <cluster>/<assignment> and with               *)
(* <cluster>/kustomization.yaml listing the assignment's directory.        *)
C15_CreateMaterializes ==
    [][\A r \in Assignments :
          (step_push_ok(r) /\ IsCreate(r)) =>
              /\ \A t \in TemplateFiles :
                    RenderedFile(<<cluster(r), name(r), t>>, r) \in remote'.tree
              /\ name(r) \in Listed(remote'.tree, <<cluster(r)>>)]_vars

(* The Creates of both assignments were pushed: both directories are in    *)
(* the branch and listed.                                                  *)
C15_Witness ==
    /\ Artifacts(remote.tree, "r1") # {}
    /\ Artifacts(remote.tree, "r2") # {}
    /\ {"app1", "app2"} \subseteq Listed(remote.tree, <<"c1">>)
    /\ outcome["r2"] = Ok("Create")

Subdirectories(wt, directory) ==
    {d[Len(d)] : d \in {x \in wt.dirs : Len(x) = Len(directory) + 1 /\ IsPrefix(directory, x)}}

RegularFiles(wt, directory) ==
    {f.path[Len(f.path)] :
        f \in {g \in wt.files : Len(g.path) = Len(directory) + 1 /\ IsPrefix(directory, g.path)}}

Manifests(wt, directory) ==
    {f \in wt.files : f.path = directory \o <<"kustomization.yaml">>}

(* The layers of template values, lowest precedence first: what            *)
(* create_deployment fixes itself, then the values of the application, of  *)
(* the environment and of the assignment.                                  *)
PlatformDefaults ==
    Some([clusterName |-> store.assignment.cluster, cloud |-> "azure",
          cloudRegion |-> "eastus2"])

Layers ==
    <<PlatformDefaults, store.application.values, store.environment.values,
      store.assignment.values>>

Defines(values, key) == values # None /\ key \in DOMAIN values[1]

Highest(key) ==
    CHOOSE i \in 1..Len(Layers) :
        /\ Defines(Layers[i], key)
        /\ \A j \in (i + 1)..Len(Layers) : ~Defines(Layers[j], key)

(* C17: the map handed to render holds the keys that some layer defines,   *)
(* each with the value of the highest layer that defines it, where the     *)
(* platform defaults are below the application's values, these below the   *)
(* environment's and these below the assignment's.                         *)
C17_LayeredValues ==
    pc = "render" =>
        /\ DOMAIN local[1] = {k \in Keys \cup {"cloudRegion"} :
                                 \E i \in 1..Len(Layers) : Defines(Layers[i], k)}
        /\ \A k \in DOMAIN local[1] : local[1][k] = Layers[Highest(k)][1][k]

(* cloud is defined by the application and the environment but not by the  *)
(* assignment, replicas by the application only, clusterName by all three. *)
C17_Witness ==
    /\ pc = "render"
    /\ Defines(store.application.values, "cloud")
    /\ Defines(store.environment.values, "cloud")
    /\ ~Defines(store.assignment.values, "cloud")
    /\ local[1]["cloud"] = "of-environment"
    /\ Defines(store.application.values, "replicas")
    /\ ~Defines(store.environment.values, "replicas")
    /\ ~Defines(store.assignment.values, "replicas")
    /\ local[1]["replicas"] = "of-application"
    /\ local[1]["clusterName"] = "of-assignment"
    /\ local[1]["cloudRegion"] = "eastus2"

(* C18: after link, the directory has one kustomization.yaml, whose list   *)
(* holds exactly the directory's immediate subdirectories other than       *)
(* flux-system, each once, and no regular file.                            *)
C18_LinkListsSubdirectories ==
    \A r \in Assignments :
        (local[r].has /\ pc[r] = "commit_files") =>
            /\ Cardinality(Manifests(local[r].wt, <<cluster(r)>>)) = 1
            /\ \A f \in Manifests(local[r].wt, <<cluster(r)>>) :
                  /\ {f.resources[i] : i \in 1..Len(f.resources)}
                        = Subdirectories(local[r].wt, <<cluster(r)>>) \ {"flux-system"}
                  /\ Len(f.resources)
                        = Cardinality(Subdirectories(local[r].wt, <<cluster(r)>>) \ {"flux-system"})

(* C18, amended: after link, the directory has one kustomization.yaml,     *)
(* whose list is "../common" followed by the directory's immediate         *)
(* subdirectories other than flux-system, each once; no regular file is    *)
(* listed and nothing of a manifest that was there before is kept.         *)
C18_LinkListsCommonAndSubdirectories ==
    \A r \in Assignments :
        (local[r].has /\ pc[r] = "commit_files") =>
            /\ Cardinality(Manifests(local[r].wt, <<cluster(r)>>)) = 1
            /\ \A f \in Manifests(local[r].wt, <<cluster(r)>>) :
                  /\ f.resources[1] = "../common"
                  /\ {f.resources[i] : i \in 2..Len(f.resources)}
                        = Subdirectories(local[r].wt, <<cluster(r)>>) \ {"flux-system"}
                  /\ Len(f.resources)
                        = 1 + Cardinality(Subdirectories(local[r].wt, <<cluster(r)>>) \ {"flux-system"})
                  /\ \A i \in 1..Len(f.resources) :
                        f.resources[i] \notin RegularFiles(local[r].wt, <<cluster(r)>>)

(* link has run in a directory that holds app1, app2 and flux-system next  *)
(* to a kustomization.yaml that listed app1 only.                          *)
C18_Witness ==
    /\ pc["r2"] = "commit_files"
    /\ Subdirectories(local["r2"].wt, <<"c1">>) = {"app1", "app2", "flux-system"}
    /\ "kustomization.yaml" \in RegularFiles(local["r2"].wt, <<"c1">>)
    /\ Listed(local["r2"].head.tree, <<"c1">>) = {"../common", "app1"}
    /\ Listed(local["r2"].wt.files, <<"c1">>) = {"../common", "app1", "app2"}

(* A task at its push whose clone is behind the branch, and a task whose   *)
(* push the remote accepted.                                               *)
Loser(r) ==
    pc[r] \in {"create_push", "delete_push"} /\ local[r].has /\ ~local[r].fresh

Pushed(r) == Made(r, Call("push", "ok")) # {}

(* C19: the next step of a task whose clone is behind the branch is the    *)
(* push failing: the reconciliation returns GitError, the branch is left   *)
(* as it is and the resource is requeued after the error backoff; and      *)
(* every such task eventually has a push accepted, unless its resource,    *)
(* already finalized by an earlier Delete, is erased from the store.       *)
C19_LoserRetries ==
    /\ [][\A r \in Assignments :
             (Loser(r) /\ pc'[r] # pc[r]) =>
                 /\ outcome'[r].result = "Err" /\ outcome'[r].error = "GitError"
                 /\ requeue'[r] = Some(ErrorBackoffSecs)
                 /\ remote' = remote]_vars
    /\ \A r \in Assignments : Loser(r) ~> (Pushed(r) \/ ~store[r].exists)

(* r1 and r2 had both committed on the same head; r2's push was accepted   *)
(* and r1's was rejected: its reconciliation returned GitError and the     *)
(* error backoff is running.                                               *)
C19_Witness ==
    /\ Made("r1", Call("push", "err")) # {}
    /\ outcome["r1"] = Err("Create", "GitError")
    /\ requeue["r1"] = Some(ErrorBackoffSecs)
    /\ Artifacts(remote, "r1") = {}
    /\ Artifacts(remote, "r2") # {}
    /\ outcome["r2"] = Ok("Create")

(* C20: in every step, a commit a task makes has one parent, the head of   *)
(* the task's clone; the branch moves only to a commit whose parent is the *)
(* head it moves from, so that every commit the branch held it still       *)
(* holds, in the same line of parents.                                     *)
C20_LinearHistory ==
    [][/\ \A r \in Assignments :
             (local'[r].has /\ local'[r].commit # None /\ local[r].has
                 /\ local[r].commit = None)
                => /\ Len(local'[r].commit[1].parents) = 1
                   /\ local'[r].commit[1].parents[1] = local[r].head
       /\ remote' # remote =>
             /\ remote'.parents = <<remote>>
             /\ Ancestors(remote) \subseteq Ancestors(remote')
             /\ \E r \in Assignments : local[r].has /\ local[r].commit = Some(remote')]_vars

(* Two tasks had committed on the same head; r2's push was accepted, and   *)
(* r1 is at its push with a commit whose parent is no longer the head.     *)
C20_Witness ==
    /\ pc["r1"] = "push"
    /\ remote.author = "r2"
    /\ local["r1"].commit[1].parents # <<remote>>
    /\ local["r1"].commit[1].parents = remote.parents

(* C21: an invocation of create_deployment or delete_deployment works in   *)
(* temporary directories made for it alone, and they are gone once it has  *)
(* returned, with Ok or with an Err of any statement: no directory is held *)
(* by two invocations, a frame holds distinct directories, only a task     *)
(* inside an invocation holds any, and the temporary directories that      *)
(* exist on the host are exactly those the running invocations hold.       *)
Held(r) == Range(temp_dirs(r))

C21_TemporaryDirectories ==
    /\ \A r \in Assignments : \A q \in Assignments \ {r} : Held(r) \cap Held(q) = {}
    /\ \A r \in Assignments :
          /\ Cardinality(Held(r)) = Len(temp_dirs(r))
          /\ Held(r) # {} => pc[r] \in Statements
    /\ local.tmp = UNION {Held(r) : r \in Assignments}

(* r1's Create has returned an Err after its clones were made, while r2's  *)
(* Delete is still at work in its own directory: that one is all that is   *)
(* left.                                                                   *)
C21_Witness ==
    /\ outcome["r1"] = Err("Create", "RenderError")
    /\ Made("r1", Call("clone", "ok")) # {}
    /\ pc["r2"] = "commit_files"
    /\ Cardinality(local.tmp) = 1
    /\ local.tmp = Held("r2")

(* C22: a Create run again on a clone of the commit its own earlier run    *)
(* pushed, with the same template, values and assignment, commits the same *)
(* tree: the same files with the same content, and a kustomization.yaml    *)
(* with the same entries, none of them twice.                              *)
Manifest(tree, directory) == {f \in tree : f.path = directory \o <<"kustomization.yaml">>}

C23_Matches ==
    pc = "returned" =>
        LET rules == store.assignment_spec.matching_labels
            labels == store.cluster.labels
        IN  /\ local[1] \in BOOLEAN
            /\ local[1] = (\A i \in 1..Len(rules) :
                              /\ rules[i].label \in DOMAIN labels
                              /\ is_match(rules[i].regex, labels[rules[i].label]))
            /\ (\E i \in 1..Len(rules) : rules[i].label \notin DOMAIN labels)
                  => local[1] = FALSE
            /\ rules = <<>> => local[1] = TRUE

(* A cluster labelled cloud=az only, and a rule whose first label rule     *)
(* (cloud ~ a.* ) matches and whose second names region, a label the       *)
(* cluster lacks: matches returned false.                                  *)
C23_Witness ==
    /\ pc = "returned"
    /\ DOMAIN store.cluster.labels = {"cloud"}
    /\ store.cluster.labels["cloud"] = <<"a", "z">>
    /\ store.assignment_spec.matching_labels =
          <<[label |-> "cloud", regex |-> <<Char("a"), AnyStar>>],
            [label |-> "region", regex |-> <<Char("z")>>]>>
    /\ local = Some(FALSE)

(* C25: whichever renderer ran, nothing of a template directory whose name *)
(* begins with '.' reaches the output, at any depth: no file was written   *)
(* below such a directory, the directory was not created, and the paths    *)
(* vector has no path below it.                                            *)
BelowDotted(path, last) ==
    \E i \in (Len(RootRelativePath) + 1)..last : is_dotted_file_name(path[i])

C25_DottedDirectoriesSkipped ==
    pc = "returned" =>
        /\ \A f \in local[1].files : ~BelowDotted(f.path, Len(f.path) - 1)
        /\ \A d \in local[1].dirs : ~BelowDotted(d, Len(d))
        /\ \A i \in 1..Len(local[1].paths) :
              ~BelowDotted(local[1].paths[i], Len(local[1].paths[i]) - 1)

(* C26: a render that returned Ok returned one path for each file it       *)
(* wrote and no other: no path twice, the paths are those of the files     *)
(* written, each is the output directory joined with the place of a        *)
(* regular file of the template tree, and none is a directory.             *)
C26_PathsOfFilesWritten ==
    (pc = "returned" /\ local[1].result = "Ok") =>
        LET paths == local[1].paths
        IN  /\ Cardinality(Range(paths)) = Len(paths)
            /\ Len(paths) = Cardinality(local[1].files)
            /\ Range(paths) = {f.path : f \in local[1].files}
            /\ Range(paths) \subseteq {RootRelativePath \o f.path : f \in store.template}
            /\ Range(paths) \cap local[1].dirs = {}

(* GitopsWorkflow::render returned Ok for a template tree with two files   *)
(* at the top, one in a subdirectory and the clone's .git: three paths,    *)
(* one of them below base.                                                 *)
C26_Witness ==
    /\ pc = "returned"
    /\ local[1].by = "GitopsWorkflow::render"
    /\ local[1].result = "Ok"
    /\ {f.path : f \in store.template} =
          { <<DeploymentYaml>>, << <<"s", "ervice.yaml">> >>,
            << <<".", "git">>, <<"c", "onfig">> >>,
            << <<"b", "ase">>, <<"c", "onfigmap.yaml">> >> }
    /\ Len(local[1].paths) = 3
    /\ RootRelativePath \o << <<"b", "ase">>, <<"c", "onfigmap.yaml">> >>
          \in Range(local[1].paths)

(* C27: a render that came to a template file with a variable the values   *)
(* lack returned Err(RenderError) and wrote no file for it.                *)
Unresolved(template, values) ==
    \E i \in 1..Len(template) :
        template[i].kind = "var" /\ template[i].arg \notin DOMAIN values

C27_UnresolvedVariableIsRenderError ==
    pc = "returned" =>
        \A f \in store.template :
            (/\ RootRelativePath \o f.path \in Range(local[1].paths)
             /\ Unresolved(f.template, store.values)) =>
                /\ local[1].result = "Err"
                /\ local[1].error = "RenderError"
                /\ \A g \in local[1].files : g.path # RootRelativePath \o f.path

(* C28: a reconciliation in which a statement failed has returned an Error *)
(* to the controller, which queues the resource again after the error      *)
(* backoff (unless the resource is gone); no task has ended in a panic.    *)
Failed(r) == \E i \in 1..Len(log[r]) : log[r][i][2] \in {"err", "panic"}

C28_FailuresReturned ==
    \A r \in Assignments :
        /\ pc[r] # "panicked"
        /\ Failed(r) =>
              /\ pc[r] = "idle"
              /\ outcome[r].result = "Err"
              /\ \/ requeue[r] = Some(ErrorBackoffSecs)
                 \/ queued[r]
                 \/ ~store[r].exists

(* C29: a commit that a Create or a Delete pushed differs from its parent, *)
(* the head it was cloned at, only in paths below <cluster>/<assignment>   *)
(* and in <cluster>/kustomization.yaml, and the commit of a Delete holds   *)
(* no file below <cluster>/<assignment>.                                   *)
Changed(before, after) == {f.path : f \in (before \ after) \cup (after \ before)}

C29_OnlyOwnPaths ==
    /\ \A c \in {d \in Ancestors(remote) : d.parents # <<>>} :
          \A path \in Changed(c.parents[1].tree, c.tree) :
              \/ IsPrefix(<<cluster(c.author), name(c.author)>>, path)
              \/ path = <<cluster(c.author), "kustomization.yaml">>
    /\ \A r \in Assignments :
          (local[r].has /\ local[r].commit # None /\ ~IsCreate(r)) =>
              Under(local[r].commit[1].tree, <<cluster(r), name(r)>>) = {}

(* The Delete of r1 was pushed on top of the Create of r2: the files of r1 *)
(* are gone, those of r2 and of the sync agent are as they were.           *)
C29_Witness ==
    /\ remote.author = "r1"
    /\ remote.parents # <<>>
    /\ remote.parents[1].author = "r2"
    /\ Artifacts(remote.parents[1].tree, "r1") # {}
    /\ Artifacts(remote.tree, "r1") = {}
    /\ Artifacts(remote.tree, "r2") = Artifacts(remote.parents[1].tree, "r2")
    /\ Artifacts(remote.tree, "r2") # {}
    /\ FluxSystemFile \in remote.tree

(* C30: when an invocation of create_deployment or delete_deployment       *)
(* returns an Err, the remote's head is what it was before the return, and *)
(* no commit of the branch's history is one this invocation made (a commit *)
(* by this task on the head this invocation cloned).                       *)
ReturnsErr(r) ==
    /\ pc[r] \in Statements
    /\ pc'[r] = "idle"
    /\ outcome'[r].result = "Err"

C31_OwnOutputPath ==
    [][\A r \in Namesakes : \A q \in Namesakes \ {r} :
          (/\ create_deployment_push_ok(r) \/ delete_deployment_push_ok(r)
           /\ HasFinalizer(q)) =>
              Artifacts(remote', q) = Artifacts(remote, q)]_vars

(* C32: once the Create of every assignment of the cluster has been pushed *)
(* (the last reconciliation of each returned Ok from a Create, a task      *)
(* whose push was rejected having come back on a fresh clone), the head of *)
(* the branch holds the files rendered for each of them and                *)
(* <cluster>/kustomization.yaml lists the directory of each.               *)
C32_EveryCreateInHead ==
    (\A r \in Namesakes : outcome[r] = Ok("Create") /\ ~store[r].deletion_timestamp) =>
        \A r \in Namesakes :
            /\ \A t \in TemplateFiles :
                  RenderedFile(<<cluster(r), name(r), t>>, r) \in remote
            /\ name(r) \in Listed(remote, <<cluster(r)>>)

(* A Create of r that has been classified and has not returned yet.        *)
CreateInFlight(r) == outcome[r] = Running("Create")

(* C33: once the deletion marker is present on a resource, no step         *)
(* materializes artifacts of that resource: every step taken while the     *)
(* marker is present leaves the resource's artifacts in the repository as  *)
(* they were or removes some of them.                                      *)
C33_MarkedNeverMaterializes ==
    [][\A r \in Resources :
          store[r].deletion_timestamp =>
              Artifacts(remote', r) \subseteq Artifacts(remote, r)]_vars

(* C33, amended: a reconciliation that starts once the deletion marker is  *)
(* present never materializes.  While the marker is present and no Create  *)
(* classified before it is still running, and in particular once the       *)
(* finalizer has been cleared and until the store erases the resource, no  *)
(* step adds an artifact of the resource to the repository and no          *)
(* reconciliation of it is classified Create.                              *)
C33_NoCreateOnceMarked ==
    [][\A r \in Resources :
          (/\ store[r].deletion_timestamp
           /\ ~CreateInFlight(r) \/ store[r].finalizers = {}) =>
              /\ Artifacts(remote', r) \subseteq Artifacts(remote, r)
              /\ outcome'[r] # Running("Create")]_vars

(* A reconciliation of a resource that is marked for deletion and whose    *)
(* finalizer is cleared already has run to its end before the store erased *)
(* the resource: it was a Delete, and the repository holds no artifact of  *)
(* the resource.                                                           *)
C33_Witness ==
    /\ store["r1"].exists
    /\ store["r1"].deletion_timestamp
    /\ store["r1"].finalizers = {}
    /\ ~queued["r1"]
    /\ outcome["r1"] = Ok("Delete")
    /\ Made("r1", Call("delete_deployment", "ok")) # {}
    /\ Artifacts(remote, "r1") = {}

====
